---- MODULE Spec2Model ----
(***************************************************************************)
(* A model of the astro-news-bot pipeline core (src/news_bot): the         *)
(* Deduplicator (dedup.py), the Summarizer and its reply parser            *)
(* (summarizer.py), the retry executor and source fetchers (fetcher.py),   *)
(* the pipeline run with its five steps (job.py, writer.py), the publish   *)
(* workflow (publisher.py) and the scheduler commands (scheduler.py).      *)
(*                                                                         *)
(* Text is modelled as a sequence of characters, each character a string   *)
(* token ("a", "sp" for a blank, "nl" for a line break, "colon_fw" for the *)
(* full-width colon, ...).  Python's 0-based indices are kept in the loop  *)
(* variables; a sequence is read at index + 1.                             *)
(***************************************************************************)
EXTENDS Integers, Sequences, FiniteSets, TLC

VARIABLES
    \* ---- dedup.py: NewsDeduplicator.deduplicate_articles / find_duplicates
    d_pc,                   \* position in deduplicate_articles
    d_input_file,           \* content of input_file (NoFile when it does not exist)
    d_output_file,          \* content of output_file
    title_sim,              \* cosine similarity of the embeddings of two titles, in hundredths
    articles,               \* the list loaded from input_file
    similarity_matrix,      \* find_duplicates: cosine_similarity(embeddings)
    d_i,                    \* find_duplicates: outer loop index i
    d_j,                    \* find_duplicates: inner loop index j
    duplicates_to_remove,   \* find_duplicates: the set of marked indices
    compared,               \* history: the pairs <<i, j>> whose similarity was read
    d_run,                  \* 1 for the first run, 2 for the run on the first run's output
    d_first_input,          \* the first run's input, kept when the second run starts
    d_first_output,         \* the first run's output, kept when the second run starts
    \* ---- fetcher.py: NewsFetcher._retry_request, called on its own
    r_max_retries,          \* the max_retries argument
    r_exec,                 \* the executor's position: attempt, calls made, sleeps done, outcome
    r_history,              \* history: the outcome of every invocation of func, in order
    \* ---- fetcher.py: NewsFetcher.fetch_all_sources and the three fetchers
    f_pc,                   \* position in fetch_all_sources: the source being fetched
    newsapi_key,            \* self.newsapi_key is set
    guardian_key,           \* self.guardian_key is set
    f_exec,                 \* the _retry_request call in progress
    f_http_errors,          \* history: attempts of that call that failed in the HTTP request
    f_feed,                 \* fetch_rss_feeds: index of the feed being fetched
    newsapi_articles,       \* fetch_all_sources: what fetch_newsapi returned
    guardian_articles,      \* fetch_all_sources: what fetch_guardian returned
    rss_articles,           \* fetch_rss_feeds: articles
    feed_admitted,          \* history: the records each finished feed appended
    f_status,               \* history: how each source ended
    f_last,                 \* history: attempts and sleeps of the source finished last
    requested,              \* history: the structured-search APIs an HTTP request was sent to
    raw_file,               \* raw_<date>.json
    \* ---- summarizer.py: NewsSummarizer.summarize_articles / summarize_article
    s_pc,                   \* position in summarize_articles
    s_input_file,           \* content of input_file (NoFile when it does not exist)
    s_output_file,          \* content of output_file
    s_articles,             \* the list loaded from input_file
    s_exec,                 \* summarize_article on the article at hand: attempt, calls, sleeps
    summarized_articles,    \* summarize_articles: summarized_articles
    total_tokens_used,      \* self.total_tokens_used
    s_origin,               \* history: "reply" or "fallback" for every summarized article
    s_last,                 \* history: calls and sleeps of the article summarized last
    s_errors,               \* history: the failures of the article attempted last, in order
    \* ---- fetcher.py: NewsFetcher._is_tech_related, called on its own
    rf_pc,                  \* position in _is_tech_related
    rf_title,               \* article.get('title', '')
    rf_description,         \* article.get('description', '')
    rf_text_content,        \* text_content
    rf_tech_score,          \* tech_score
    rf_result,              \* the value returned (FALSE before the return)
    \* ---- summarizer.py: NewsSummarizer.parse_llm_response, called on its own
    p_pc,                   \* position in parse_llm_response
    p_content,              \* the content argument
    p_lines,                \* lines
    p_k,                    \* the number of lines the scan is through with
    p_scan,                 \* summary, bullets and current_section during the scan
    p_prev,                 \* history: p_scan before the line scanned last
    p_summary,              \* the summary returned
    p_bullets,              \* the bullets returned
    \* ---- job.py: NewsJob.run_pipeline
    j_result,               \* "running", or the value run_pipeline returned
    j_next,                 \* run_pipeline: the position in steps of the step to call next
    dry_run,                \* self.dry_run
    openai_key,             \* OPENAI_API_KEY is set
    j_store,                \* raw_, select_, dedup_ and summary_<date>.json
    j_before,               \* history: the four files when the step called last was called
    j_markdown,             \* content/news/<date>/index.md
    j_started,              \* history: the names of the steps called, in order
    j_returned,             \* history: what each of them returned
    j_fetched,              \* history: the list fetch_all_sources returned
    j_lost,                 \* history: the input file removed from the working directory
    j_summ_input,           \* history: the file run_summarizer took as input
    j_encode_calls,         \* history: calls of the embedding model's encode
    j_provider_calls,       \* history: calls of the completion provider
    j_published,            \* publish returned True
    \* ---- publisher.py: NewsPublisher.publish and its callers
    pub_pc,                 \* position in publish
    pub_caller,             \* "run_publisher" (job.py) or "main" (the command line)
    auto_push,              \* the argument auto_push
    pub_repo,               \* the blog repository: working tree, index, commit, deployment
    pub_ops,                \* history: the commands run, each with its outcome
    pub_result,             \* what publish returned ("raised": an exception left it)
    pub_exit,               \* what the caller made of it
    \* ---- scheduler.py: the commands start, run-now and restart, each in a process
    sc_command,             \* the command each process was started with
    sc_pc,                  \* the position of each process in its command
    pid_file,               \* news_scheduler.pid: NoPid when absent, else the pid it holds
    sc_sigterm,             \* the processes a SIGTERM was sent to and that have not handled it
    sc_pipeline,            \* the processes in which NewsJob.run_pipeline is executing
    sc_runs,                \* the number of pipeline runs each process has begun
    sc_target               \* stop: the pid each process read from the PID file

dvars == <<d_pc, d_input_file, d_output_file, title_sim, articles, similarity_matrix,
           d_i, d_j, duplicates_to_remove, compared, d_run, d_first_input, d_first_output>>

rvars == <<r_max_retries, r_exec, r_history>>

fvars == <<f_pc, newsapi_key, guardian_key, f_exec, f_http_errors, f_feed, newsapi_articles,
           guardian_articles, rss_articles, feed_admitted, f_status, f_last, requested,
           raw_file>>

svars == <<s_pc, s_input_file, s_output_file, s_articles, s_exec, summarized_articles,
           total_tokens_used, s_origin, s_last, s_errors>>

rfvars == <<rf_pc, rf_title, rf_description, rf_text_content, rf_tech_score, rf_result>>

pvars == <<p_pc, p_content, p_lines, p_k, p_scan, p_prev, p_summary, p_bullets>>

jvars == <<j_result, j_next, dry_run, openai_key, j_store, j_before, j_markdown, j_started,
           j_returned, j_fetched, j_lost, j_summ_input, j_encode_calls, j_provider_calls,
           j_published>>

pubvars == <<pub_pc, pub_caller, auto_push, pub_repo, pub_ops, pub_result, pub_exit>>

scvars == <<sc_command, sc_pc, pid_file, sc_sigterm, sc_pipeline, sc_runs, sc_target>>

vars == <<dvars, rvars, fvars, svars, rfvars, pvars, jvars, pubvars, scvars>>

\* what each component leaves alone: the variables of the other components
not_dvars == <<rvars, fvars, svars, rfvars, pvars, jvars, pubvars, scvars>>

not_rvars == <<dvars, fvars, svars, rfvars, pvars, jvars, pubvars, scvars>>

not_fvars == <<dvars, rvars, svars, rfvars, pvars, jvars, pubvars, scvars>>

not_svars == <<dvars, rvars, fvars, rfvars, pvars, jvars, pubvars, scvars>>

not_rfvars == <<dvars, rvars, fvars, svars, pvars, jvars, pubvars, scvars>>

not_pvars == <<dvars, rvars, fvars, svars, rfvars, jvars, pubvars, scvars>>

not_jvars == <<dvars, rvars, fvars, svars, rfvars, pvars, pubvars, scvars>>

not_pubvars == <<dvars, rvars, fvars, svars, rfvars, pvars, jvars, scvars>>

not_scvars == <<dvars, rvars, fvars, svars, rfvars, pvars, jvars, pubvars>>

(***************************************************************************)
(* Bounds of the model.                                                    *)
(***************************************************************************)
MaxArticles == 3

\* the largest max_retries argument _retry_request is called with on its own
MaxRetriesArg == 4

\* the number of feeds: the model takes the first MaxFeeds of rss_feeds
MaxFeeds == 2

\* the largest number of records of a Summarizer input document
MaxSummArticles == 2

\* the largest number of lines of a reply parse_llm_response is called with on its own
MaxReplyLines == 3

\* the largest number of articles fetch_all_sources returns in a pipeline run
MaxJobArticles == 2

\* the number of processes that run a scheduler command at the same time
MaxProcesses == 2

\* the largest number of pipeline runs one process begins
MaxPipelineRuns == 1

(***************************************************************************)
(* Common values.                                                          *)
(***************************************************************************)
\* a file of the Staging Store: absent, or present with a JSON array as content
NoFile == [exists |-> FALSE, content |-> <<>>]

File(c) == [exists |-> TRUE, content |-> c]

Min(a, b) == IF a <= b THEN a ELSE b

RECURSIVE Pow2(_)
Pow2(n) == IF n = 0 THEN 1 ELSE 2 * Pow2(n - 1)

\* s is a subsequence of t: an order-preserving choice of positions of t
IsSubsequence(s, t) ==
    /\ Len(s) <= Len(t)
    /\ \E f \in [1..Len(s) -> 1..Len(t)] :
          /\ \A k \in 1..Len(s) : s[k] = t[f[k]]
          /\ \A k \in 1..Len(s) : \A m \in 1..Len(s) : k < m => f[k] < f[m]

(***************************************************************************)
(* Text: Python str operations on sequences of characters.                 *)
(***************************************************************************)
\* str.strip() removes blanks and line breaks at both ends
Whitespace == {"sp", "nl"}

RECURSIVE LStrip(_)
LStrip(s) == IF s # <<>> /\ Head(s) \in Whitespace THEN LStrip(Tail(s)) ELSE s

RECURSIVE RStrip(_)
RStrip(s) ==
    IF s # <<>> /\ s[Len(s)] \in Whitespace THEN RStrip(SubSeq(s, 1, Len(s) - 1)) ELSE s

Strip(s) == RStrip(LStrip(s))

\* s[:n]
Take(s, n) == SubSeq(s, 1, Min(n, Len(s)))

\* s.startswith(p)
StartsWith(s, p) == Len(p) <= Len(s) /\ SubSeq(s, 1, Len(p)) = p

\* p in s
Contains(s, p) == \E k \in 1..(Len(s) - Len(p) + 1) : SubSeq(s, k, k + Len(p) - 1) = p

\* s.replace(p, ''), for a non-empty p: every occurrence, left to right
RECURSIVE RemoveAll(_, _)
RemoveAll(s, p) ==
    IF s = <<>> THEN <<>>
    ELSE IF StartsWith(s, p) THEN RemoveAll(SubSeq(s, Len(p) + 1, Len(s)), p)
    ELSE <<Head(s)>> \o RemoveAll(Tail(s), p)

\* s.split(c), for a single character c: always at least one piece
RECURSIVE SplitFrom(_, _, _)
SplitFrom(s, c, piece) ==
    IF s = <<>> THEN <<piece>>
    ELSE IF Head(s) = c THEN <<piece>> \o SplitFrom(Tail(s), c, <<>>)
    ELSE SplitFrom(Tail(s), c, Append(piece, Head(s)))

Split(s, c) == SplitFrom(s, c, <<>>)

\* str.lower(): the capital letters the model's texts use
LowerChar(c) ==
    CASE c = "A" -> "a"
      [] c = "I" -> "i"
      [] c = "O" -> "o"
      [] c = "S" -> "s"
      [] c = "W" -> "w"
      [] OTHER -> c

Lower(s) == [k \in 1..Len(s) |-> LowerChar(s[k])]

\* n copies of the character c
Repeat(c, n) == [k \in 1..n |-> c]

(***************************************************************************)
(* dedup.py                                                                *)
(***************************************************************************)
\* NewsDeduplicator.__init__: similarity_threshold = 0.85, in hundredths
similarity_threshold == 85

Titles == {"A", "B", "C"}

\* similarity values, in hundredths: below, at and above the threshold
SimLevels == {80, 85, 90}

\* the unordered pairs of distinct titles
TitlePairs == {{t, u} : t \in Titles, u \in Titles} \ {{t} : t \in Titles}

\* cosine similarity over the title embeddings: symmetric, 1.0 for equal titles
TitleSims ==
    {[p \in Titles \X Titles |-> IF p[1] = p[2] THEN 100 ELSE g[{p[1], p[2]}]] :
        g \in [TitlePairs -> SimLevels]}

\* an article record; url is the record's unique key
Article(t, u) == [title |-> t, url |-> u]

\* the raw_<date>.json documents: up to MaxArticles records, the k-th with url k
RawDocuments ==
    UNION {{[k \in 1..n |-> Article(ts[k], k)] : ts \in [1..n -> Titles]} : n \in 0..MaxArticles}

\* compute_title_embeddings + cosine_similarity: entry [i][j], 0-based
SimilarityMatrix(arts) ==
    [i \in 0..(Len(arts) - 1) |->
        [j \in 0..(Len(arts) - 1) |-> title_sim[<<arts[i + 1].title, arts[j + 1].title>>]]]

\* find_duplicates, line 57: a marked index is never used as the reference i
SkipReferenceChained(i, dups) == FALSE
SkipReference(i, dups) == i \in dups

\* find_duplicates, line 65: the comparison against the threshold
IsDuplicateStrict(similarity) == similarity > similarity_threshold
IsDuplicate(similarity) == similarity >= similarity_threshold

\* find_duplicates, lines 60-67: after marking j the inner loop goes on with j + 1
NextJAfterMarkBreak(j, n) == n
NextJAfterMark(j, n) == j + 1

\* deduplicate_articles, lines 106-109: keep the unmarked records, in order
RECURSIVE KeepUnmarkedFrom(_, _, _)
KeepUnmarkedFrom(arts, dups, k) ==
    IF k > Len(arts) THEN <<>>
    ELSE IF (k - 1) \notin dups
         THEN <<arts[k]>> \o KeepUnmarkedFrom(arts, dups, k + 1)
         ELSE KeepUnmarkedFrom(arts, dups, k + 1)

RECURSIVE KeepUnmarkedReversedFrom(_, _, _)
KeepUnmarkedReversedFrom(arts, dups, k) ==
    IF k > Len(arts) THEN <<>>
    ELSE IF (k - 1) \notin dups
         THEN KeepUnmarkedReversedFrom(arts, dups, k + 1) \o <<arts[k]>>
         ELSE KeepUnmarkedReversedFrom(arts, dups, k + 1)

KeepUnmarkedReversed(arts, dups) == KeepUnmarkedReversedFrom(arts, dups, 1)
KeepUnmarked(arts, dups) == KeepUnmarkedFrom(arts, dups, 1)

DedupIdle ==
    /\ d_pc = "idle"
    /\ d_input_file = NoFile
    /\ d_output_file = NoFile
    /\ title_sim = <<>>
    /\ articles = <<>>
    /\ similarity_matrix = <<>>
    /\ d_i = 0
    /\ d_j = 0
    /\ duplicates_to_remove = {}
    /\ compared = {}
    /\ d_run = 0
    /\ d_first_input = NoFile
    /\ d_first_output = NoFile

DedupInit ==
    /\ d_pc = "start"
    /\ d_input_file \in {NoFile} \cup {File(doc) : doc \in RawDocuments}
    /\ d_output_file = NoFile
    /\ title_sim \in TitleSims
    /\ articles = <<>>
    /\ similarity_matrix = <<>>
    /\ d_i = 0
    /\ d_j = 0
    /\ duplicates_to_remove = {}
    /\ compared = {}
    /\ d_run = 1
    /\ d_first_input = NoFile
    /\ d_first_output = NoFile

\* deduplicate_articles, lines 85-86: the input file does not exist
DedupFileNotFound ==
    /\ UNCHANGED not_dvars
    /\ d_pc = "start"
    /\ ~d_input_file.exists
    /\ d_pc' = "raised"
    /\ UNCHANGED <<d_input_file, d_output_file, title_sim, articles, similarity_matrix,
                   d_i, d_j, duplicates_to_remove, compared, d_run, d_first_input, d_first_output>>

\* deduplicate_articles, lines 88-95: an empty document is written through
DedupEmpty ==
    /\ UNCHANGED not_dvars
    /\ d_pc = "start"
    /\ d_input_file.exists
    /\ d_input_file.content = <<>>
    /\ articles' = d_input_file.content
    /\ d_output_file' = File(<<>>)
    /\ d_pc' = "done"
    /\ UNCHANGED <<d_input_file, title_sim, similarity_matrix,
                   d_i, d_j, duplicates_to_remove, compared, d_run, d_first_input, d_first_output>>

\* deduplicate_articles, lines 88-103 and find_duplicates, lines 52-55
DedupLoad ==
    /\ UNCHANGED not_dvars
    /\ d_pc = "start"
    /\ d_input_file.exists
    /\ d_input_file.content # <<>>
    /\ articles' = d_input_file.content
    /\ similarity_matrix' = SimilarityMatrix(d_input_file.content)
    /\ duplicates_to_remove' = {}
    /\ compared' = {}
    /\ d_i' = 0
    /\ d_j' = 0
    /\ d_pc' = "outer"
    /\ UNCHANGED <<d_input_file, d_output_file, title_sim, d_run, d_first_input, d_first_output>>

\* find_duplicates, lines 56-60: one step of the outer loop
DedupOuter ==
    /\ UNCHANGED not_dvars
    /\ d_pc = "outer"
    /\ IF d_i >= Len(articles)
       THEN /\ d_pc' = "collect"
            /\ UNCHANGED <<d_i, d_j>>
       ELSE IF SkipReference(d_i, duplicates_to_remove)
            THEN /\ d_i' = d_i + 1
                 /\ UNCHANGED <<d_pc, d_j>>
            ELSE /\ d_j' = d_i + 1
                 /\ d_pc' = "inner"
                 /\ UNCHANGED d_i
    /\ UNCHANGED <<d_input_file, d_output_file, title_sim, articles, similarity_matrix,
                   duplicates_to_remove, compared, d_run, d_first_input, d_first_output>>

\* find_duplicates, lines 60-69: one step of the inner loop
DedupInner ==
    /\ UNCHANGED not_dvars
    /\ d_pc = "inner"
    /\ IF d_j >= Len(articles)
       THEN /\ d_i' = d_i + 1
            /\ d_pc' = "outer"
            /\ UNCHANGED <<d_j, duplicates_to_remove, compared>>
       ELSE IF d_j \in duplicates_to_remove
            THEN /\ d_j' = d_j + 1
                 /\ UNCHANGED <<d_pc, d_i, duplicates_to_remove, compared>>
            ELSE /\ compared' = compared \cup {<<d_i, d_j>>}
                 /\ IF IsDuplicate(similarity_matrix[d_i][d_j])
                    THEN /\ duplicates_to_remove' = duplicates_to_remove \cup {d_j}
                         /\ d_j' = NextJAfterMark(d_j, Len(articles))
                    ELSE /\ d_j' = d_j + 1
                         /\ UNCHANGED duplicates_to_remove
                 /\ UNCHANGED <<d_pc, d_i>>
    /\ UNCHANGED <<d_input_file, d_output_file, title_sim, articles, similarity_matrix,
                   d_run, d_first_input, d_first_output>>

\* deduplicate_articles, lines 105-122: collect the survivors and write them
DedupCollect ==
    /\ UNCHANGED not_dvars
    /\ d_pc = "collect"
    /\ d_output_file' = File(KeepUnmarked(articles, duplicates_to_remove))
    /\ d_pc' = "done"
    /\ UNCHANGED <<d_input_file, title_sim, articles, similarity_matrix,
                   d_i, d_j, duplicates_to_remove, compared, d_run, d_first_input, d_first_output>>

\* The Deduplicator is run once more, on the document it has just written
\* (a second NewsDeduplicator(0.85).deduplicate_articles call, same provider).
DedupRerun ==
    /\ UNCHANGED not_dvars
    /\ d_pc = "done"
    /\ d_run = 1
    /\ d_run' = 2
    /\ d_first_input' = d_input_file
    /\ d_first_output' = d_output_file
    /\ d_input_file' = d_output_file
    /\ d_pc' = "start"
    /\ UNCHANGED <<d_output_file, title_sim, articles, similarity_matrix,
                   d_i, d_j, duplicates_to_remove, compared>>

DedupNext ==
    \/ DedupFileNotFound
    \/ DedupEmpty
    \/ DedupLoad
    \/ DedupOuter
    \/ DedupInner
    \/ DedupCollect
    \/ DedupRerun

(***************************************************************************)
(* fetcher.py: the retry executor                                          *)
(***************************************************************************)
\* the default of the max_retries parameter of _retry_request
DefaultMaxRetries == 3

\* _retry_request, line 88: wait_time = 2 ** attempt
BackoffWaitLinear(attempt) == 2 * attempt
BackoffWait(attempt) == Pow2(attempt)

\* _retry_request, line 86: the attempt that re-raises
IsLastAttemptEarly(attempt, max_retries) == attempt = max_retries - 2
IsLastAttempt(attempt, max_retries) == attempt = max_retries - 1

\* the executor before its first attempt (line 82: attempt = 0)
RetryStart == [attempt |-> 0, calls |-> 0, sleeps |-> <<>>, status |-> "running", result |-> "none"]

\* _retry_request, line 84: func() returned value; it is returned at once
RetryReturn(r, value) ==
    [r EXCEPT !.calls = r.calls + 1, !.status = "returned", !.result = value]

\* _retry_request, lines 85-90: func() raised error
RetryExcept(r, error, max_retries) ==
    IF IsLastAttempt(r.attempt, max_retries)
    THEN [r EXCEPT !.calls = r.calls + 1, !.status = "raised", !.result = error]
    ELSE [r EXCEPT !.calls = r.calls + 1,
                   !.sleeps = Append(r.sleeps, BackoffWait(r.attempt)),
                   !.attempt = r.attempt + 1]

\* what func returns or raises when _retry_request is called on its own
FuncValues == {"v1", "v2"}

FuncErrors == {"e1", "e2"}

RetryIdle ==
    /\ r_max_retries = DefaultMaxRetries
    /\ r_exec = RetryStart
    /\ r_history = <<>>

RetryInit ==
    /\ r_max_retries \in 1..MaxRetriesArg
    /\ r_exec = RetryStart
    /\ r_history = <<>>

\* one attempt whose func() returns
RetryAttemptReturns(value) ==
    /\ UNCHANGED not_rvars
    /\ r_exec.status = "running"
    /\ r_exec' = RetryReturn(r_exec, value)
    /\ r_history' = Append(r_history, [ok |-> TRUE, val |-> value])
    /\ UNCHANGED r_max_retries

\* one attempt whose func() raises
RetryAttemptRaises(error) ==
    /\ UNCHANGED not_rvars
    /\ r_exec.status = "running"
    /\ r_exec' = RetryExcept(r_exec, error, r_max_retries)
    /\ r_history' = Append(r_history, [ok |-> FALSE, val |-> error])
    /\ UNCHANGED r_max_retries

RetryNext ==
    \/ \E value \in FuncValues : RetryAttemptReturns(value)
    \/ \E error \in FuncErrors : RetryAttemptRaises(error)

(***************************************************************************)
(* fetcher.py: values of provider payloads                                 *)
(***************************************************************************)
\* a key of a payload dict: not there, there with null, or there with a text
Absent == [kind |-> "absent", text |-> <<>>]

Null == [kind |-> "null", text |-> <<>>]

Txt(s) == [kind |-> "text", text |-> s]

\* dict.get(key, default)
Get(v, default) == IF v.kind = "absent" THEN Txt(default) ELSE v

\* Python truthiness of dict.get(key): None and '' are false
Truthy(v) == v.kind = "text" /\ v.text # <<>>

\* the result of a Python expression that may raise
Raised == [raised |-> TRUE, value |-> <<>>]

Returned(v) == [raised |-> FALSE, value |-> v]

(***************************************************************************)
(* fetcher.py: the Relevance Filter                                        *)
(***************************************************************************)
\* NewsFetcher.__init__, lines 31-41
high_priority ==
    <<<<"a", "r", "t", "i", "f", "i", "c", "i", "a", "l", "sp", "i", "n", "t", "e", "l", "l", "i", "g", "e", "n", "c", "e">>,
      <<"a", "i">>,
      <<"m", "a", "c", "h", "i", "n", "e", "sp", "l", "e", "a", "r", "n", "i", "n", "g">>,
      <<"d", "e", "e", "p", "sp", "l", "e", "a", "r", "n", "i", "n", "g">>,
      <<"n", "e", "u", "r", "a", "l", "sp", "n", "e", "t", "w", "o", "r", "k">>,
      <<"g", "p", "t">>,
      <<"l", "l", "m">>,
      <<"l", "a", "r", "g", "e", "sp", "l", "a", "n", "g", "u", "a", "g", "e", "sp", "m", "o", "d", "e", "l">>,
      <<"c", "h", "a", "t", "g", "p", "t">>,
      <<"o", "p", "e", "n", "a", "i">>,
      <<"a", "n", "t", "h", "r", "o", "p", "i", "c">>,
      <<"c", "l", "a", "u", "d", "e">>,
      <<"a", "l", "g", "o", "r", "i", "t", "h", "m">>,
      <<"p", "r", "o", "g", "r", "a", "m", "m", "i", "n", "g">>,
      <<"s", "o", "f", "t", "w", "a", "r", "e">>,
      <<"t", "e", "c", "h", "n", "o", "l", "o", "g", "y">>,
      <<"t", "e", "c", "h">>,
      <<"s", "t", "a", "r", "t", "u", "p">>,
      <<"r", "o", "b", "o", "t", "i", "c", "s">>,
      <<"a", "u", "t", "o", "m", "a", "t", "i", "o", "n">>,
      <<"c", "o", "m", "p", "u", "t", "e", "r", "sp", "s", "c", "i", "e", "n", "c", "e">>,
      <<"d", "a", "t", "a", "sp", "s", "c", "i", "e", "n", "c", "e">>,
      <<"q", "u", "a", "n", "t", "u", "m", "sp", "c", "o", "m", "p", "u", "t", "i", "n", "g">>,
      <<"b", "l", "o", "c", "k", "c", "h", "a", "i", "n">>,
      <<"c", "r", "y", "p", "t", "o", "c", "u", "r", "r", "e", "n", "c", "y">>,
      <<"c", "y", "b", "e", "r", "s", "e", "c", "u", "r", "i", "t", "y">>,
      <<"c", "l", "o", "u", "d", "sp", "c", "o", "m", "p", "u", "t", "i", "n", "g">>,
      <<"a", "p", "i">>,
      <<"s", "e", "m", "i", "c", "o", "n", "d", "u", "c", "t", "o", "r">>,
      <<"c", "h", "i", "p">>,
      <<"p", "r", "o", "c", "e", "s", "s", "o", "r">>,
      <<"m", "i", "c", "r", "o", "p", "r", "o", "c", "e", "s", "s", "o", "r">>,
      <<"g", "p", "u">>,
      <<"c", "p", "u">>,
      <<"a", "p", "p">>,
      <<"p", "l", "a", "t", "f", "o", "r", "m">>,
      <<"g", "o", "o", "g", "l", "e">>,
      <<"m", "i", "c", "r", "o", "s", "o", "f", "t">>,
      <<"a", "p", "p", "l", "e">>,
      <<"m", "e", "t", "a">>,
      <<"t", "e", "s", "l", "a">>,
      <<"i", "n", "t", "e", "l">>,
      <<"n", "v", "i", "d", "i", "a">>,
      <<"c", "o", "d", "i", "n", "g">>,
      <<"d", "e", "v", "e", "l", "o", "p", "e", "r">>,
      <<"g", "i", "t", "h", "u", "b">>,
      <<"o", "p", "e", "n", "sp", "s", "o", "u", "r", "c", "e">>,
      <<"d", "a", "t", "a", "b", "a", "s", "e">>,
      <<"w", "e", "b", "sp", "d", "e", "v", "e", "l", "o", "p", "m", "e", "n", "t">>,
      <<"m", "o", "b", "i", "l", "e", "sp", "a", "p", "p">>,
      <<"i", "o", "s">>,
      <<"a", "n", "d", "r", "o", "i", "d">>,
      <<"l", "i", "n", "u", "x">>,
      <<"w", "i", "n", "d", "o", "w", "s">>>>

\* NewsFetcher.__init__, lines 42-47
science_keywords ==
    <<<<"r", "e", "s", "e", "a", "r", "c", "h">>,
      <<"s", "t", "u", "d", "y">>,
      <<"d", "i", "s", "c", "o", "v", "e", "r", "y">>,
      <<"b", "r", "e", "a", "k", "t", "h", "r", "o", "u", "g", "h">>,
      <<"i", "n", "n", "o", "v", "a", "t", "i", "o", "n">>,
      <<"s", "c", "i", "e", "n", "t", "i", "f", "i", "c">>,
      <<"e", "x", "p", "e", "r", "i", "m", "e", "n", "t">>,
      <<"d", "e", "v", "e", "l", "o", "p", "m", "e", "n", "t">>,
      <<"a", "d", "v", "a", "n", "c", "e", "m", "e", "n", "t">>,
      <<"p", "r", "o", "g", "r", "e", "s", "s">>,
      <<"e", "n", "g", "i", "n", "e", "e", "r", "i", "n", "g">>,
      <<"c", "r", "i", "s", "p", "r">>,
      <<"g", "e", "n", "e", "t", "i", "c", "s">>,
      <<"s", "p", "a", "c", "e">>,
      <<"n", "a", "s", "a">>,
      <<"s", "p", "a", "c", "e", "x">>,
      <<"c", "l", "i", "m", "a", "t", "e">>,
      <<"e", "n", "e", "r", "g", "y">>,
      <<"b", "a", "t", "t", "e", "r", "y">>,
      <<"r", "e", "n", "e", "w", "a", "b", "l", "e">>,
      <<"e", "l", "e", "c", "t", "r", "i", "c", "sp", "v", "e", "h", "i", "c", "l", "e">>,
      <<"e", "v">>,
      <<"a", "u", "t", "o", "n", "o", "m", "o", "u", "s">>>>

\* NewsFetcher.__init__, lines 48-52
exclude_keywords ==
    <<<<"s", "p", "o", "r", "t", "s">>,
      <<"e", "n", "t", "e", "r", "t", "a", "i", "n", "m", "e", "n", "t">>,
      <<"c", "e", "l", "e", "b", "r", "i", "t", "y">>,
      <<"f", "a", "s", "h", "i", "o", "n">>,
      <<"p", "o", "l", "i", "t", "i", "c", "s">>,
      <<"e", "l", "e", "c", "t", "i", "o", "n">>,
      <<"w", "e", "a", "t", "h", "e", "r">>,
      <<"c", "r", "i", "m", "e">>,
      <<"a", "c", "c", "i", "d", "e", "n", "t">>,
      <<"d", "e", "a", "t", "h">>,
      <<"m", "u", "r", "d", "e", "r">>,
      <<"w", "a", "r">>,
      <<"m", "i", "l", "i", "t", "a", "r", "y">>,
      <<"p", "o", "r", "n">>,
      <<"a", "d", "u", "l", "t">>,
      <<"s", "e", "x">>,
      <<"d", "a", "t", "i", "n", "g">>,
      <<"r", "e", "l", "a", "t", "i", "o", "n", "s", "h", "i", "p">>,
      <<"l", "o", "v", "e">>,
      <<"m", "a", "r", "r", "i", "a", "g", "e">>>>

\* _is_tech_related, lines 62-64: an exclusion keyword occurs in the text
IsExcludedAsWord(text_content) ==
    \E k \in 1..Len(exclude_keywords) :
        Contains(<<"sp">> \o text_content \o <<"sp">>, <<"sp">> \o exclude_keywords[k] \o <<"sp">>)
IsExcluded(text_content) ==
    \E k \in 1..Len(exclude_keywords) : Contains(text_content, exclude_keywords[k])

\* _is_tech_related, lines 67-75: 2 per high-priority keyword, 1 per science keyword
TechScore(text_content) ==
    2 * Cardinality({k \in 1..Len(high_priority) : Contains(text_content, high_priority[k])})
    + Cardinality({k \in 1..Len(science_keywords) : Contains(text_content, science_keywords[k])})

\* _is_tech_related, lines 57-78, on the title and description texts
AcceptsText(title, description) ==
    LET text_content == Lower(title) \o <<"sp">> \o Lower(description)
    IN  ~IsExcluded(text_content) /\ TechScore(text_content) >= 1

\* the texts of the model's payloads
Texts ==
    [ai_chip   |-> <<"A", "I", "sp", "c", "h", "i", "p">>,
     new_gpu   |-> <<"n", "e", "w", "sp", "g", "p", "u">>,
     new_study |-> <<"n", "e", "w", "sp", "s", "t", "u", "d", "y">>,
     space     |-> <<"s", "p", "a", "c", "e">>,
     software  |-> <<"S", "o", "f", "t", "w", "a", "r", "e", "sp", "f", "i", "x">>,
     bakery    |-> <<"l", "o", "c", "a", "l", "sp", "b", "a", "k", "e", "r", "y">>,
     bread     |-> <<"b", "r", "e", "a", "d">>]

PayloadTexts == {<<>>} \cup {Texts[k] : k \in DOMAIN Texts}

\* the verdict of AcceptsText on every pair of payload texts, computed once
PayloadVerdicts ==
    {<<p[1], p[2], AcceptsText(p[1], p[2])>> : p \in PayloadTexts \X PayloadTexts}

\* _is_tech_related(article): raises when title or description is null
\* (None has no lower()), else the verdict
is_tech_related(title, description) ==
    LET t == Get(title, <<>>)
        d == Get(description, <<>>)
    IN  IF t.kind = "null" \/ d.kind = "null" THEN Raised
        ELSE IF t.text \in PayloadTexts /\ d.text \in PayloadTexts
             THEN Returned(<<t.text, d.text, TRUE>> \in PayloadVerdicts)
             ELSE Returned(AcceptsText(t.text, d.text))

\* the texts _is_tech_related is called with on its own: the payload texts,
\* an exclusion keyword alone, and two words that make a keyword only together
RelevanceTexts ==
    PayloadTexts \cup {<<"W", "a", "r">>, <<"O", "p", "e", "n">>, <<"s", "o", "u", "r", "c", "e">>}

RelevanceIdle ==
    /\ rf_pc = "idle"
    /\ rf_title = <<>>
    /\ rf_description = <<>>
    /\ rf_text_content = <<>>
    /\ rf_tech_score = 0
    /\ rf_result = FALSE

\* the keywords of the two scoring lists, each as a title of its own
KeywordTitles ==
    {high_priority[k] : k \in DOMAIN high_priority}
        \cup {science_keywords[k] : k \in DOMAIN science_keywords}

\* _is_tech_related is called with an article: a title and a description of
\* the texts, or a title that is one scoring keyword and no description
RelevanceInit ==
    /\ rf_pc = "start"
    /\ \/ /\ rf_title \in RelevanceTexts
          /\ rf_description \in RelevanceTexts
       \/ /\ rf_title \in KeywordTitles
          /\ rf_description = <<>>
    /\ rf_text_content = <<>>
    /\ rf_tech_score = 0
    /\ rf_result = FALSE

\* _is_tech_related, lines 57-64: the text is built; an exclusion keyword in
\* it returns False at once
RelevanceExclude ==
    /\ UNCHANGED not_rfvars
    /\ rf_pc = "start"
    /\ LET text_content == Lower(rf_title) \o <<"sp">> \o Lower(rf_description) IN
       /\ rf_text_content' = text_content
       /\ IF IsExcluded(text_content)
          THEN rf_result' = FALSE /\ rf_pc' = "done"
          ELSE rf_result' = FALSE /\ rf_pc' = "score"
    /\ UNCHANGED <<rf_title, rf_description, rf_tech_score>>

\* _is_tech_related, lines 67-78: the score is added up and compared with 1
RelevanceScore ==
    /\ UNCHANGED not_rfvars
    /\ rf_pc = "score"
    /\ rf_tech_score' = TechScore(rf_text_content)
    /\ rf_result' = (TechScore(rf_text_content) >= 1)
    /\ rf_pc' = "done"
    /\ UNCHANGED <<rf_title, rf_description, rf_text_content>>

RelevanceNext ==
    \/ RelevanceExclude
    \/ RelevanceScore

(***************************************************************************)
(* fetcher.py: the source fetchers                                         *)
(***************************************************************************)
\* fetch_newsapi line 127, fetch_guardian line 169, fetch_rss_feeds line 226: [:200]
DescriptionLimit == 200

\* fetch_rss_feeds, line 211: entries[:20]
EntriesPerFeed == 20

\* fetch_rss_feeds, line 220: the tolerance on the publish date, in days
DateTolerance == 1

U(n) == <<"u", n>>

\* a NewsAPI hit (data['articles'][k])
NewsHit(title, url, description, content) ==
    [title |-> title, url |-> url, description |-> description, content |-> content,
     source_name |-> Txt(<<"W", "i", "r", "e", "d">>)]

\* the payloads of a NewsAPI response (data['articles'])
NewsapiPayloads ==
    LET chip == NewsHit(Txt(Texts.ai_chip), Txt(U("1")), Txt(Texts.new_gpu), Absent)
        \* no description: the record's description is the head of the content
        study == NewsHit(Txt(Texts.new_study), Txt(U("2")), Txt(<<>>), Txt(Texts.space))
        bakery == NewsHit(Txt(Texts.bakery), Txt(U("3")), Txt(Texts.bread), Absent)
        software == NewsHit(Txt(Texts.software), Txt(U("4")), Txt(Texts.new_gpu), Absent)
        \* "description": null, as the provider sends for a hit without one
        null_description == NewsHit(Txt(Texts.ai_chip), Txt(U("5")), Null, Null)
        null_title == NewsHit(Null, Txt(U("6")), Txt(Texts.new_gpu), Absent)
    IN  {<<>>,
         <<chip, study>>,
         <<bakery, study, software>>,
         <<null_title, chip>>,
         <<chip, null_description, study>>}

\* a Guardian hit (data['response']['results'][k])
GuardianHit(headline, webUrl, trailText) ==
    [headline |-> headline, webTitle |-> Absent, webUrl |-> webUrl, trailText |-> trailText]

\* the payloads of a Guardian response (data['response']['results'])
GuardianPayloads ==
    LET chip == GuardianHit(Txt(Texts.ai_chip), Txt(U("7")), Txt(Texts.new_gpu))
        \* no webUrl and no trailText: the record's url is empty
        study_no_url == GuardianHit(Txt(Texts.new_study), Absent, Absent)
        bakery == GuardianHit(Txt(Texts.bakery), Txt(U("8")), Txt(Texts.bread))
        \* "trailText": null
        null_trail == GuardianHit(Txt(Texts.ai_chip), Txt(U("9")), Null)
    IN  {<<>>,
         <<chip, study_no_url>>,
         <<bakery, chip>>,
         <<chip, null_trail>>}

\* an RSS entry; published and updated are the parsed dates as days from the
\* target date (NoDate when the entry has none)
NoDate == [has |-> FALSE, days |-> 0]

Days(n) == [has |-> TRUE, days |-> n]

RssEntry(title, link, summary, published, updated) ==
    [title |-> title, link |-> link, summary |-> summary,
     published_parsed |-> published, updated_parsed |-> updated]

\* the entries of a parsed feed (feed_data.entries)
RssPayloads ==
    LET today == RssEntry(Txt(Texts.ai_chip), Txt(U("a")), Txt(Texts.new_gpu), Days(0), NoDate)
        \* no published date, updated the day before
        updated == RssEntry(Txt(Texts.new_study), Txt(U("b")), Txt(Texts.space), NoDate, Days(-1))
        \* published two days later (the updated date is not looked at)
        two_days == RssEntry(Txt(Texts.ai_chip), Txt(U("c")), Txt(Texts.new_gpu), Days(2), Days(0))
        no_date == RssEntry(Txt(Texts.ai_chip), Txt(U("d")), Txt(Texts.new_gpu), NoDate, NoDate)
        bakery == RssEntry(Txt(Texts.bakery), Txt(U("e")), Txt(Texts.bread), Days(1), NoDate)
        \* "summary": null
        null_summary == RssEntry(Txt(Texts.ai_chip), Txt(U("f")), Null, Days(0), NoDate)
        \* a feed longer than the per-feed limit: its only admissible entry is the 21st
        late == RssEntry(Txt(Texts.ai_chip), Txt(U("g")), Txt(Texts.new_gpu), Days(0), NoDate)
        long_feed == [k \in 1..(EntriesPerFeed + 1) |->
                         IF k <= EntriesPerFeed THEN bakery ELSE late]
    IN  {<<>>,
         <<today, updated>>,
         <<two_days, no_date, updated, bakery>>,
         <<today, null_summary, updated>>,
         long_feed}

\* an article record as the fetchers build it
FetchedArticle(title, url, source, description) ==
    [title |-> title, url |-> url, published_at |-> <<>>, source |-> source,
     description |-> description]

\* fetch_newsapi._fetch, lines 120-128, from hit k on: Raised, or the records
RECURSIVE NewsapiMapFrom(_, _, _)
NewsapiMapFrom(hits, k, acc) ==
    IF k > Len(hits) THEN Returned(acc)
    ELSE LET h == hits[k] IN
         IF ~(Truthy(h.title) /\ Truthy(h.url)) THEN NewsapiMapFrom(hits, k + 1, acc)
         ELSE LET verdict == is_tech_related(h.title, h.description)
                  d == Get(h.description, <<>>)
                  c == Get(h.content, <<>>)
              IN  IF verdict.raised THEN Raised
                  ELSE IF ~verdict.value THEN NewsapiMapFrom(hits, k + 1, acc)
                  ELSE IF ~Truthy(d) /\ c.kind = "null" THEN Raised
                  ELSE NewsapiMapFrom(hits, k + 1,
                          Append(acc, FetchedArticle(h.title.text, h.url.text,
                              <<"NewsAPI - ", Get(h.source_name, <<"Unknown">>).text>>,
                              IF Truthy(d) THEN d.text ELSE Take(c.text, DescriptionLimit))))

NewsapiMap(hits) == NewsapiMapFrom(hits, 1, <<>>)

\* fetch_guardian._fetch, lines 161-175, from hit k on
RECURSIVE GuardianMapFrom(_, _, _)
GuardianMapFrom(hits, k, acc) ==
    IF k > Len(hits) THEN Returned(acc)
    ELSE LET h == hits[k]
             title == IF h.headline.kind = "absent" THEN Get(h.webTitle, <<>>) ELSE h.headline
             url == Get(h.webUrl, <<>>)
             trail == Get(h.trailText, <<>>)
         IN  IF trail.kind = "null" THEN Raised
             ELSE LET description == Txt(Take(trail.text, DescriptionLimit))
                      verdict == is_tech_related(title, description)
                  IN  IF verdict.raised THEN Raised
                      ELSE IF ~verdict.value THEN GuardianMapFrom(hits, k + 1, acc)
                      ELSE GuardianMapFrom(hits, k + 1,
                              Append(acc, FetchedArticle(title.text, url.text,
                                  <<"The Guardian">>, description.text)))

GuardianMap(hits) == GuardianMapFrom(hits, 1, <<>>)

\* fetch_rss_feeds, lines 213-217: the entry's date
PubDate(e) ==
    IF e.published_parsed.has THEN e.published_parsed
    ELSE IF e.updated_parsed.has THEN e.updated_parsed
    ELSE NoDate

Abs(n) == IF n < 0 THEN -n ELSE n

\* fetch_rss_feeds, line 220
WithinToleranceLoose(pub_date) == pub_date.has /\ Abs(pub_date.days) <= DateTolerance + 1
WithinTolerance(pub_date) == pub_date.has /\ Abs(pub_date.days) <= DateTolerance

\* fetch_rss_feeds, lines 211-231, from entry k on: the records appended so
\* far, and whether the loop raised (the records appended before it stay)
RECURSIVE RssMapFrom(_, _, _)
RssMapFrom(entries, k, acc) ==
    IF k > Len(entries) THEN [raised |-> FALSE, value |-> acc]
    ELSE LET e == entries[k]
             summary == Get(e.summary, <<>>)
         IN  IF ~WithinTolerance(PubDate(e)) THEN RssMapFrom(entries, k + 1, acc)
             ELSE IF summary.kind = "null" THEN [raised |-> TRUE, value |-> acc]
             ELSE LET title == Get(e.title, <<>>)
                      description == Txt(Take(summary.text, DescriptionLimit))
                      verdict == is_tech_related(title, description)
                  IN  IF verdict.raised THEN [raised |-> TRUE, value |-> acc]
                      ELSE IF ~verdict.value THEN RssMapFrom(entries, k + 1, acc)
                      ELSE RssMapFrom(entries, k + 1,
                              Append(acc, FetchedArticle(title.text, Get(e.link, <<>>).text,
                                  <<"RSS - ", "feed">>, description.text)))

RssMap(entries) == RssMapFrom(Take(entries, EntriesPerFeed), 1, <<>>)

\* fetch_all_sources, lines 264-267: the validity pass
RECURSIVE ValidArticlesFrom(_, _)
ValidArticlesFrom(all, k) ==
    IF k > Len(all) THEN <<>>
    ELSE IF all[k].title # <<>> /\ all[k].url # <<>> /\ all[k].source # <<>>
         THEN <<all[k]>> \o ValidArticlesFrom(all, k + 1)
         ELSE ValidArticlesFrom(all, k + 1)

ValidArticlesUnfiltered(all) == all
ValidArticles(all) == ValidArticlesFrom(all, 1)

\* what one HTTP request of a source can bring: an error (the request or
\* raise_for_status or the parse raises), or a payload
HttpError == [ok |-> FALSE, data |-> <<>>]

HttpOk(data) == [ok |-> TRUE, data |-> data]

NewsapiResponses == {HttpError} \cup {HttpOk(h) : h \in NewsapiPayloads}

GuardianResponses == {HttpError} \cup {HttpOk(h) : h \in GuardianPayloads}

RssResponses == {HttpError} \cup {HttpOk(e) : e \in RssPayloads}

\* what fetch_all_sources remembers of the source it finished last: how many
\* times the request was attempted, the sleeps in between, and how it ended
LastOf(source, ex, outcome) ==
    [source |-> source, calls |-> ex.calls, sleeps |-> ex.sleeps, outcome |-> outcome]

\* how a source ended: "ok" when _retry_request returned, "http_failed" when it
\* gave up and every attempt had failed in the HTTP request, "read_failed"
\* when it gave up and every attempt had failed in reading the payload,
\* "failed" when it gave up after failures of both kinds
OutcomeOf(ex, http_errors) ==
    IF ex.status = "returned" THEN "ok"
    ELSE IF http_errors = ex.calls THEN "http_failed"
    ELSE IF http_errors = 0 THEN "read_failed"
    ELSE "failed"

FetchIdle ==
    /\ f_pc = "idle"
    /\ newsapi_key = FALSE
    /\ guardian_key = FALSE
    /\ f_exec = RetryStart
    /\ f_http_errors = 0
    /\ f_feed = 0
    /\ newsapi_articles = <<>>
    /\ guardian_articles = <<>>
    /\ rss_articles = <<>>
    /\ feed_admitted = <<>>
    /\ f_status = [newsapi |-> "pending", guardian |-> "pending", feeds |-> <<>>]
    /\ f_last = LastOf("none", RetryStart, "none")
    /\ requested = {}
    /\ raw_file = NoFile

\* NewsFetcher.__init__ and the start of fetch_all_sources
FetchInit ==
    /\ f_pc = "newsapi"
    /\ newsapi_key \in BOOLEAN
    /\ guardian_key \in BOOLEAN
    /\ f_exec = RetryStart
    /\ f_http_errors = 0
    /\ f_feed = 0
    /\ newsapi_articles = <<>>
    /\ guardian_articles = <<>>
    /\ rss_articles = <<>>
    /\ feed_admitted = <<>>
    /\ f_status = [newsapi |-> "pending", guardian |-> "pending", feeds |-> <<>>]
    /\ f_last = LastOf("none", RetryStart, "none")
    /\ requested = {}
    /\ raw_file = NoFile

\* fetch_newsapi line 94, fetch_guardian line 140: if not self.<key>
KeyMissingNever(key) == FALSE
KeyMissing(key) == ~key

\* fetch_rss_feeds, lines 233-235: after a skipped feed, continue with the next one
NextFeedAfterSkipAbort(feed) == MaxFeeds
NextFeedAfterSkip(feed) == feed + 1

\* one attempt of _retry_request(_fetch): _fetch raised, or returned records
AfterAttempt(ex, mapped) ==
    IF mapped.raised
    THEN RetryExcept(ex, "error", DefaultMaxRetries)
    ELSE RetryReturn(ex, mapped.value)

\* fetch_newsapi, lines 94-96: no key, no request
FetchNewsapiNoKey ==
    /\ UNCHANGED not_fvars
    /\ f_pc = "newsapi"
    /\ KeyMissing(newsapi_key)
    /\ newsapi_articles' = <<>>
    /\ f_status' = [f_status EXCEPT !.newsapi = "no_key"]
    /\ f_last' = LastOf("newsapi", RetryStart, "no_key")
    /\ f_pc' = "guardian"
    /\ UNCHANGED <<newsapi_key, guardian_key, f_exec, f_http_errors, f_feed,
                   guardian_articles, rss_articles, feed_admitted, requested, raw_file>>

\* fetch_newsapi, lines 98-136: one attempt of the request; when the executor
\* returns or gives up, fetch_all_sources goes on with the Guardian (lines 247-253)
FetchNewsapiAttempt(resp) ==
    /\ UNCHANGED not_fvars
    /\ f_pc = "newsapi"
    /\ ~KeyMissing(newsapi_key)
    /\ requested' = requested \cup {"newsapi"}
    /\ LET ex == AfterAttempt(f_exec, IF resp.ok THEN NewsapiMap(resp.data) ELSE Raised)
           errors == IF resp.ok THEN f_http_errors ELSE f_http_errors + 1
       IN  IF ex.status = "running"
           THEN /\ f_exec' = ex
                /\ f_http_errors' = errors
                /\ UNCHANGED <<f_pc, newsapi_articles, f_status, f_last>>
           ELSE /\ f_exec' = RetryStart
                /\ f_http_errors' = 0
                /\ newsapi_articles' = IF ex.status = "returned" THEN ex.result ELSE <<>>
                /\ f_status' = [f_status EXCEPT !.newsapi = OutcomeOf(ex, errors)]
                /\ f_last' = LastOf("newsapi", ex, OutcomeOf(ex, errors))
                /\ f_pc' = "guardian"
    /\ UNCHANGED <<newsapi_key, guardian_key, f_feed, guardian_articles,
                   rss_articles, feed_admitted, raw_file>>

\* fetch_guardian, lines 140-142: no key, no request
FetchGuardianNoKey ==
    /\ UNCHANGED not_fvars
    /\ f_pc = "guardian"
    /\ KeyMissing(guardian_key)
    /\ guardian_articles' = <<>>
    /\ f_status' = [f_status EXCEPT !.guardian = "no_key"]
    /\ f_last' = LastOf("guardian", RetryStart, "no_key")
    /\ f_pc' = "rss"
    /\ UNCHANGED <<newsapi_key, guardian_key, f_exec, f_http_errors, f_feed,
                   newsapi_articles, rss_articles, feed_admitted, requested, raw_file>>

\* fetch_guardian, lines 144-181: one attempt of the request; then the RSS
\* feeds (fetch_all_sources, lines 253-259)
FetchGuardianAttempt(resp) ==
    /\ UNCHANGED not_fvars
    /\ f_pc = "guardian"
    /\ ~KeyMissing(guardian_key)
    /\ requested' = requested \cup {"guardian"}
    /\ LET ex == AfterAttempt(f_exec, IF resp.ok THEN GuardianMap(resp.data) ELSE Raised)
           errors == IF resp.ok THEN f_http_errors ELSE f_http_errors + 1
       IN  IF ex.status = "running"
           THEN /\ f_exec' = ex
                /\ f_http_errors' = errors
                /\ UNCHANGED <<f_pc, guardian_articles, f_status, f_last>>
           ELSE /\ f_exec' = RetryStart
                /\ f_http_errors' = 0
                /\ guardian_articles' = IF ex.status = "returned" THEN ex.result ELSE <<>>
                /\ f_status' = [f_status EXCEPT !.guardian = OutcomeOf(ex, errors)]
                /\ f_last' = LastOf("guardian", ex, OutcomeOf(ex, errors))
                /\ f_pc' = "rss"
    /\ UNCHANGED <<newsapi_key, guardian_key, f_feed, newsapi_articles,
                   rss_articles, feed_admitted, raw_file>>

\* fetch_rss_feeds, lines 207-235: one attempt of the request of feed f_feed;
\* when the executor returns, the feed's entries are read (outside the
\* executor); when it gives up, or reading an entry raises, the feed is
\* skipped and the loop goes on with the next feed
FetchRssAttempt(resp) ==
    /\ UNCHANGED not_fvars
    /\ f_pc = "rss"
    /\ f_feed < MaxFeeds
    /\ LET ex == AfterAttempt(f_exec, IF resp.ok THEN Returned(resp.data) ELSE Raised)
           errors == IF resp.ok THEN f_http_errors ELSE f_http_errors + 1
           read == IF ex.status = "returned" THEN RssMap(ex.result) ELSE Raised
           outcome == IF ex.status = "returned" /\ read.raised THEN "entry_error"
                      ELSE OutcomeOf(ex, errors)
       IN  IF ex.status = "running"
           THEN /\ f_exec' = ex
                /\ f_http_errors' = errors
                /\ UNCHANGED <<f_feed, rss_articles, feed_admitted, f_status, f_last>>
           ELSE /\ f_exec' = RetryStart
                /\ f_http_errors' = 0
                /\ rss_articles' = rss_articles \o read.value
                /\ feed_admitted' = Append(feed_admitted, read.value)
                /\ f_status' = [f_status EXCEPT !.feeds = Append(f_status.feeds, outcome)]
                /\ f_last' = LastOf("rss", ex, outcome)
                /\ f_feed' = IF outcome = "ok" THEN f_feed + 1 ELSE NextFeedAfterSkip(f_feed)
    /\ UNCHANGED <<f_pc, newsapi_key, guardian_key, newsapi_articles, guardian_articles,
                   requested, raw_file>>

\* fetch_rss_feeds, line 237 and fetch_all_sources, lines 260-277: the feeds are
\* through; concatenate, drop the records without title, url or source, write
FetchAllValidate ==
    /\ UNCHANGED not_fvars
    /\ f_pc = "rss"
    /\ f_feed = MaxFeeds
    /\ raw_file' = File(ValidArticles(newsapi_articles \o guardian_articles \o rss_articles))
    /\ f_pc' = "done"
    /\ UNCHANGED <<newsapi_key, guardian_key, f_exec, f_http_errors, f_feed,
                   newsapi_articles, guardian_articles, rss_articles, feed_admitted,
                   f_status, f_last, requested>>

FetchNext ==
    \/ FetchNewsapiNoKey
    \/ \E resp \in NewsapiResponses : FetchNewsapiAttempt(resp)
    \/ FetchGuardianNoKey
    \/ \E resp \in GuardianResponses : FetchGuardianAttempt(resp)
    \/ \E resp \in RssResponses : FetchRssAttempt(resp)
    \/ FetchAllValidate

(***************************************************************************)
(* summarizer.py                                                           *)
(***************************************************************************)
\* summarize_article: the default of max_retries
SummaryMaxRetries == 3

\* summarize_article, line 121: description[:100]
FallbackDescriptionLimit == 100

\* parse_llm_response, line 174: len(line.strip()) > 20
SubstantialLength == 20

\* the texts of the replies and of the fallbacks, character by character:
\* the line markers, the full-width colon, the placeholder, the head and the
\* tail of the fallback summary, the default tags
SummaryMarker == <<"zhai", "yao", "colon_fw">>

TagsMarker == <<"biao", "qian", "colon_fw">>

MarkerPunctuation == <<"colon_fw">>

ParseFailedPlaceholder == <<"zhai", "yao", "jie", "xi", "shi", "bai">>

FallbackHead == <<"wu", "fa", "sheng", "cheng", "zhai", "yao", "colon_fw">>

FallbackTail == <<"dot", "dot", "dot">>

DefaultBullets == <<(<<"ke", "ji">>), (<<"xin", "wen">>)>>

\* parse_llm_response, lines 157 and 166: [tag.strip() for tag in pieces if tag.strip()]
RECURSIVE StrippedNonEmpty(_)
StrippedNonEmpty(pieces) ==
    IF pieces = <<>> THEN <<>>
    ELSE IF Strip(Head(pieces)) # <<>>
         THEN <<Strip(Head(pieces))>> \o StrippedNonEmpty(Tail(pieces))
         ELSE StrippedNonEmpty(Tail(pieces))

\* parse_llm_response, lines 156-159 and 165-168: the full-width comma
\* separates when the text has one, else the plain comma
SplitTagsFirstFive(text) ==
    Take(IF Contains(text, <<"comma_fw">>)
         THEN StrippedNonEmpty(Split(text, "comma_fw"))
         ELSE StrippedNonEmpty(Split(text, "comma")), 5)
SplitTags(text) ==
    IF Contains(text, <<"comma_fw">>)
    THEN StrippedNonEmpty(Split(text, "comma_fw"))
    ELSE StrippedNonEmpty(Split(text, "comma"))

\* parse_llm_response, lines 140-143: the scan's variables before the first line
ScanStart == [summary |-> <<>>, bullets |-> <<>>, current_section |-> "none"]

\* parse_llm_response, lines 146-168: the scan of one line
ScanLineAnySection(st, raw_line) ==
    LET line == Strip(raw_line) IN
    IF line = <<>> THEN st
    ELSE IF StartsWith(line, SummaryMarker)
         THEN [st EXCEPT !.summary = Strip(RemoveAll(line, SummaryMarker)),
                         !.current_section = "summary"]
    ELSE IF StartsWith(line, TagsMarker)
         THEN [st EXCEPT !.bullets = SplitTags(Strip(RemoveAll(line, TagsMarker))),
                         !.current_section = "bullets"]
    ELSE IF st.current_section # "none" /\ st.summary = <<>>
         THEN [st EXCEPT !.summary = line]
    ELSE IF st.current_section = "bullets" /\ st.bullets = <<>>
         THEN [st EXCEPT !.bullets = SplitTags(line)]
    ELSE st
ScanLine(st, raw_line) ==
    LET line == Strip(raw_line) IN
    IF line = <<>> THEN st
    ELSE IF StartsWith(line, SummaryMarker)
         THEN [st EXCEPT !.summary = Strip(RemoveAll(line, SummaryMarker)),
                         !.current_section = "summary"]
    ELSE IF StartsWith(line, TagsMarker)
         THEN [st EXCEPT !.bullets = SplitTags(Strip(RemoveAll(line, TagsMarker))),
                         !.current_section = "bullets"]
    ELSE IF st.current_section = "summary" /\ st.summary = <<>>
         THEN [st EXCEPT !.summary = line]
    ELSE IF st.current_section = "bullets" /\ st.bullets = <<>>
         THEN [st EXCEPT !.bullets = SplitTags(line)]
    ELSE st

\* parse_llm_response, line 145: for line in lines
RECURSIVE ScanFrom(_, _, _)
ScanFrom(lines, k, st) ==
    IF k > Len(lines) THEN st ELSE ScanFrom(lines, k + 1, ScanLine(st, lines[k]))

\* parse_llm_response, lines 173-178: the first line longer than 20 characters
\* without a full-width colon, else the placeholder
RECURSIVE FirstLongFrom(_, _)
FirstLongFrom(lines, k) ==
    IF k > Len(lines) THEN ParseFailedPlaceholder
    ELSE IF Len(Strip(lines[k])) > SubstantialLength
         THEN Strip(lines[k])
         ELSE FirstLongFrom(lines, k + 1)

RECURSIVE FirstSubstantialFrom(_, _)
FirstSubstantialFrom(lines, k) ==
    IF k > Len(lines) THEN ParseFailedPlaceholder
    ELSE IF Len(Strip(lines[k])) > SubstantialLength /\ ~Contains(lines[k], MarkerPunctuation)
         THEN Strip(lines[k])
         ELSE FirstSubstantialFrom(lines, k + 1)

\* parse_llm_response, lines 180-181: if not bullets
BulletsAsScanned(bullets) == bullets
BulletsOrDefault(bullets) == IF bullets = <<>> THEN DefaultBullets ELSE bullets

\* parse_llm_response(content)
parse_llm_response(content) ==
    LET lines == Split(Strip(content), "nl")
        st == ScanFrom(lines, 1, ScanStart)
    IN  [summary |-> IF st.summary = <<>> THEN FirstSubstantialFrom(lines, 1) ELSE st.summary,
         bullets |-> BulletsOrDefault(st.bullets)]

\* the lines of the replies parse_llm_response is called with on its own
ReplyLines ==
    {SummaryMarker \o <<"a", "b">>,
     SummaryMarker,
     TagsMarker \o <<"x", "comma", "y", "comma", "z">>,
     TagsMarker,
     <<"c", "d">>,
     <<"sp">>,
     \* 25 plain characters
     Repeat("p", 25),
     \* 20 plain characters between blanks
     <<"sp">> \o Repeat("q", 20) \o <<"sp">>,
     \* 25 characters with a full-width colon
     Repeat("r", 12) \o <<"colon_fw">> \o Repeat("r", 12),
     \* the summary marker twice in one line
     SummaryMarker \o <<"a">> \o SummaryMarker \o <<"b">>}

\* '\n'.join(lines)
RECURSIVE JoinLines(_)
JoinLines(lines) ==
    IF lines = <<>> THEN <<>>
    ELSE IF Len(lines) = 1 THEN lines[1]
    ELSE lines[1] \o <<"nl">> \o JoinLines(Tail(lines))

\* the replies: up to MaxReplyLines lines
ParseContents ==
    UNION {{JoinLines(ls) : ls \in [1..n -> ReplyLines]} : n \in 0..MaxReplyLines}

ParseIdle ==
    /\ p_pc = "idle"
    /\ p_content = <<>>
    /\ p_lines = <<>>
    /\ p_k = 0
    /\ p_scan = ScanStart
    /\ p_prev = ScanStart
    /\ p_summary = <<>>
    /\ p_bullets = <<>>

\* parse_llm_response is called with a reply
ParseInit ==
    /\ p_pc = "start"
    /\ p_content \in ParseContents
    /\ p_lines = <<>>
    /\ p_k = 0
    /\ p_scan = ScanStart
    /\ p_prev = ScanStart
    /\ p_summary = <<>>
    /\ p_bullets = <<>>

\* parse_llm_response, lines 139-143: the content is split into lines
ParseSplit ==
    /\ UNCHANGED not_pvars
    /\ p_pc = "start"
    /\ p_lines' = Split(Strip(p_content), "nl")
    /\ p_scan' = ScanStart
    /\ p_prev' = ScanStart
    /\ p_k' = 0
    /\ p_pc' = "scan"
    /\ UNCHANGED <<p_content, p_summary, p_bullets>>

\* parse_llm_response, lines 145-168: the scan of the next line
ParseScanLine ==
    /\ UNCHANGED not_pvars
    /\ p_pc = "scan"
    /\ p_k < Len(p_lines)
    /\ p_scan' = ScanLine(p_scan, p_lines[p_k + 1])
    /\ p_prev' = p_scan
    /\ p_k' = p_k + 1
    /\ UNCHANGED <<p_pc, p_content, p_lines, p_summary, p_bullets>>

\* parse_llm_response, lines 170-183: the fallbacks after the scan, and the return
ParseFallback ==
    /\ UNCHANGED not_pvars
    /\ p_pc = "scan"
    /\ p_k = Len(p_lines)
    /\ p_summary' = IF p_scan.summary = <<>> THEN FirstSubstantialFrom(p_lines, 1)
                    ELSE p_scan.summary
    /\ p_bullets' = BulletsOrDefault(p_scan.bullets)
    /\ p_pc' = "done"
    /\ UNCHANGED <<p_content, p_lines, p_k, p_scan, p_prev>>

ParseNext ==
    \/ ParseSplit
    \/ ParseScanLine
    \/ ParseFallback

\* summarize_article, lines 109-111 and 120-122: article.copy() with the two fields set
WithSummaryFresh(article, summary, bullets) ==
    [title |-> article.title, url |-> article.url, summary |-> summary, bullets |-> bullets]
WithSummary(article, summary, bullets) ==
    [field \in DOMAIN article \cup {"summary", "bullets"} |->
        IF field = "summary" THEN summary
        ELSE IF field = "bullets" THEN bullets
        ELSE article[field]]

\* summarize_article, line 121: the fallback summary
FallbackSummaryWhole(article) ==
    FallbackHead \o Get(article.description, <<>>).text \o FallbackTail
FallbackSummary(article) ==
    FallbackHead \o Take(Get(article.description, <<>>).text, FallbackDescriptionLimit)
        \o FallbackTail

\* summarize_article, line 117: the attempt whose failure ends in the fallback
FallbackDue(attempt, max_retries) == attempt = max_retries - 1

\* the descriptions of the input records: none, a short one, one of 101 characters
SummDescriptions ==
    {Absent, Txt(Texts.new_gpu), Txt(Repeat("d", FallbackDescriptionLimit) \o <<"e">>)}

\* the input records with url k: one for each description, without summary
\* and bullets, and for the first record one that carries a summary and a
\* tag from an earlier run of the stage
SummRecords(k) ==
    {[title |-> Texts.ai_chip, url |-> k, description |-> d] : d \in SummDescriptions}
        \cup (IF k = 1
              THEN {[title |-> Texts.ai_chip, url |-> k, description |-> Txt(Texts.new_gpu),
                     summary |-> <<"o", "l", "d">>, bullets |-> <<(<<"k", "e", "p", "t">>)>>]}
              ELSE {})

\* the input documents: up to MaxSummArticles records, the k-th with url k
SummDocuments ==
    UNION {{doc \in [1..n -> UNION {SummRecords(k) : k \in 1..n}] :
               \A k \in 1..n : doc[k] \in SummRecords(k)} : n \in 0..MaxSummArticles}

\* response.choices[0].message.content of the replies
ReplyContents ==
    {\* both markers, blanks around, plain commas
     <<"sp", "zhai", "yao", "colon_fw", "sp", "a", "b", "nl",
       "biao", "qian", "colon_fw", "x", "comma", "sp", "y", "comma", "z", "sp", "nl">>,
     \* the markers on lines of their own, full-width comma
     <<"zhai", "yao", "colon_fw", "nl", "nl", "a", "b", "nl",
       "biao", "qian", "colon_fw", "nl", "x", "comma_fw", "y", "comma_fw">>,
     \* no marker, one line of 25 characters
     Repeat("p", 25),
     \* no marker, one line of 20 characters
     Repeat("q", 20),
     \* no marker, one line of 25 characters with a full-width colon
     Repeat("r", 12) \o <<"colon_fw">> \o Repeat("r", 12),
     \* one tag
     <<"zhai", "yao", "colon_fw", "a", "b", "nl", "biao", "qian", "colon_fw", "x">>,
     \* six tags
     <<"zhai", "yao", "colon_fw", "a", "b", "nl", "biao", "qian", "colon_fw",
       "t", "comma", "u", "comma", "v", "comma", "x", "comma", "y", "comma", "z">>,
     \* the tags marker with no tag, no summary
     <<"biao", "qian", "colon_fw", "comma", "sp", "comma">>,
     \* nothing
     <<>>}

\* what one call of the provider brings: a transient exception (timeout,
\* rate limit, ...), an authentication error, a response whose content is
\* null, or a reply
ProviderOutcomes ==
    {[kind |-> "error", content |-> <<>>], [kind |-> "auth_error", content |-> <<>>],
     [kind |-> "null_content", content |-> <<>>]}
        \cup {[kind |-> "reply", content |-> c] : c \in ReplyContents}

\* response.usage.total_tokens of a reply
ReplyTokens == 7

\* parse_llm_response on the stripped content of every reply, computed once
ParsedReplies == {<<c, parse_llm_response(Strip(c))>> : c \in ReplyContents}

ParsedReply(c) == (CHOOSE p \in ParsedReplies : p[1] = c)[2]

\* summarize_article before its first attempt (line 85: attempt = 0)
SummStart == [attempt |-> 0, calls |-> 0, sleeps |-> <<>>]

SummIdle ==
    /\ s_pc = "idle"
    /\ s_input_file = NoFile
    /\ s_output_file = NoFile
    /\ s_articles = <<>>
    /\ s_exec = SummStart
    /\ summarized_articles = <<>>
    /\ total_tokens_used = 0
    /\ s_origin = <<>>
    /\ s_last = SummStart
    /\ s_errors = <<>>

\* NewsSummarizer.__init__ and the start of summarize_articles
SummInit ==
    /\ s_pc = "start"
    /\ s_input_file \in {NoFile} \cup {File(doc) : doc \in SummDocuments}
    /\ s_output_file = NoFile
    /\ s_articles = <<>>
    /\ s_exec = SummStart
    /\ summarized_articles = <<>>
    /\ total_tokens_used = 0
    /\ s_origin = <<>>
    /\ s_last = SummStart
    /\ s_errors = <<>>

\* summarize_articles, lines 197-198: the input file does not exist
SummFileNotFound ==
    /\ UNCHANGED not_svars
    /\ s_pc = "start"
    /\ ~s_input_file.exists
    /\ s_pc' = "raised"
    /\ UNCHANGED <<s_input_file, s_output_file, s_articles, s_exec, summarized_articles,
                   total_tokens_used, s_origin, s_last, s_errors>>

\* summarize_articles, lines 200-207: an empty list is written as it is
SummEmpty ==
    /\ UNCHANGED not_svars
    /\ s_pc = "start"
    /\ s_input_file.exists
    /\ s_input_file.content = <<>>
    /\ s_output_file' = File(<<>>)
    /\ s_pc' = "done"
    /\ UNCHANGED <<s_input_file, s_articles, s_exec, summarized_articles,
                   total_tokens_used, s_origin, s_last, s_errors>>

\* summarize_articles, lines 200-211: the list is loaded, the loop starts
SummLoad ==
    /\ UNCHANGED not_svars
    /\ s_pc = "start"
    /\ s_input_file.exists
    /\ s_input_file.content # <<>>
    /\ s_articles' = s_input_file.content
    /\ summarized_articles' = <<>>
    /\ s_pc' = "loop"
    /\ UNCHANGED <<s_input_file, s_output_file, s_exec, total_tokens_used, s_origin, s_last,
                   s_errors>>

\* summarize_articles, lines 212-218, and summarize_article, lines 85-127:
\* one attempt on the article at hand (the first one not yet summarized).
\* A reply is parsed and the record appended; a failure is followed by a
\* sleep and another attempt, or on the last attempt by the fallback record.
SummAttempt(outcome) ==
    /\ UNCHANGED not_svars
    /\ s_pc = "loop"
    /\ Len(summarized_articles) < Len(s_articles)
    /\ s_errors' = IF outcome.kind = "reply"
                   THEN (IF s_exec.calls = 0 THEN <<>> ELSE s_errors)
                   ELSE (IF s_exec.calls = 0 THEN <<outcome.kind>>
                         ELSE Append(s_errors, outcome.kind))
    /\ LET article == s_articles[Len(summarized_articles) + 1]
           calls == s_exec.calls + 1
       IN  IF outcome.kind = "reply"
           THEN LET parsed == ParsedReply(outcome.content) IN
                /\ total_tokens_used' = total_tokens_used + ReplyTokens
                /\ summarized_articles' =
                      Append(summarized_articles,
                             WithSummary(article, parsed.summary, parsed.bullets))
                /\ s_origin' = Append(s_origin, "reply")
                /\ s_last' = [s_exec EXCEPT !.calls = calls]
                /\ s_exec' = SummStart
           ELSE IF FallbackDue(s_exec.attempt, SummaryMaxRetries)
           THEN /\ summarized_articles' =
                      Append(summarized_articles,
                             WithSummary(article, FallbackSummary(article), DefaultBullets))
                /\ s_origin' = Append(s_origin, "fallback")
                /\ s_last' = [s_exec EXCEPT !.calls = calls]
                /\ s_exec' = SummStart
                /\ UNCHANGED total_tokens_used
           ELSE /\ s_exec' = [attempt |-> s_exec.attempt + 1, calls |-> calls,
                              sleeps |-> Append(s_exec.sleeps, Pow2(s_exec.attempt))]
                /\ UNCHANGED <<summarized_articles, total_tokens_used, s_origin>>
                /\ UNCHANGED s_last
    /\ UNCHANGED <<s_pc, s_input_file, s_output_file, s_articles>>

\* summarize_articles, lines 220-229: every article is through; the list is written
SummWrite ==
    /\ UNCHANGED not_svars
    /\ s_pc = "loop"
    /\ Len(summarized_articles) = Len(s_articles)
    /\ s_output_file' = File(summarized_articles)
    /\ s_pc' = "done"
    /\ UNCHANGED <<s_input_file, s_articles, s_exec, summarized_articles,
                   total_tokens_used, s_origin, s_last, s_errors>>

SummNext ==
    \/ SummFileNotFound
    \/ SummEmpty
    \/ SummLoad
    \/ \E outcome \in ProviderOutcomes : SummAttempt(outcome)
    \/ SummWrite

(***************************************************************************)
(* job.py: NewsJob.run_pipeline and its five steps.  Each step is one      *)
(* action: the whole run_* method, with the stage it calls.                *)
(***************************************************************************)
\* the record the k-th hit of the day becomes; url is the record's unique key
JobArticle(k) ==
    [title |-> Repeat("t", k), url |-> k,
     description |-> IF k % 2 = 0 THEN Absent ELSE Txt(Texts.new_gpu)]

\* what fetch_all_sources returns: the day's valid articles, none included
FetchedDocuments == {[k \in 1..n |-> JobArticle(k)] : n \in 0..MaxJobArticles}

\* a document left in the working directory by somebody else: one record
StaleDocument == <<[title |-> Texts.bakery, url |-> 0, description |-> Absent]>>

\* the four staging files of the date
Store(raw, select, dedup_file, summary) ==
    [raw |-> raw, select |-> select, dedup |-> dedup_file, summary |-> summary]

\* content/news/<date>/index.md: absent, or rendered from the records with these urls
NoMarkdown == [exists |-> FALSE, urls |-> {}]

Markdown(doc) == [exists |-> TRUE, urls |-> {doc[k].url : k \in 1..Len(doc)}]

\* run_pipeline, lines 165-177: the steps, the Publisher only when not dry_run
StepsWithPublisher(dry) ==
    <<"Fetcher", "Deduplicator", "Summarizer", "Writer", "Publisher">>
Steps(dry) ==
    IF dry THEN <<"Fetcher", "Deduplicator", "Summarizer", "Writer">>
    ELSE <<"Fetcher", "Deduplicator", "Summarizer", "Writer", "Publisher">>

\* run_pipeline, lines 180-183: the loop goes on only after a step that returned True
GoesOnAlways(success) == TRUE
GoesOn(success) == success

\* what a step returned: the run_* method's boolean, and the list the stage
\* returned to it (empty when the stage returned no list)
StepResult(ok, value) == [ok |-> ok, value |-> value]

\* run_pipeline, lines 180-195, after the step at position j_next returned
\* success: the value returned by run_pipeline if it returns, and the next position
PipelineAfter(success, position, dry) ==
    IF ~GoesOn(success) THEN [result |-> "False", next |-> position]
    ELSE IF position = Len(Steps(dry)) THEN [result |-> "True", next |-> position]
    ELSE [result |-> "running", next |-> position + 1]

\* find_duplicates, lines 56-69: the marked indices are indices j > i >= 0,
\* so index 0 is never marked; which ones are marked is up to the embeddings
DuplicateSets(arts) == SUBSET (1..(Len(arts) - 1))

\* deduplicate_articles, lines 91-98: the titles are encoded in one call, and
\* only when there is an article
EmbeddingCallsEager(arts) == 1
EmbeddingCalls(arts) == IF arts = <<>> THEN 0 ELSE 1

\* deduplicate_articles, lines 85-86, and summarize_articles, lines 197-198:
\* FileNotFoundError is raised before the output file is opened
OutputTruncated(before) == File(<<>>)
OutputAfterRaise(before) == before

\* run_summarizer, lines 98-100: select_<date>.json when it exists, else dedup_<date>.json
SummarizerInputDedup(store) == "dedup"
SummarizerInput(store) == IF store.select.exists THEN "select" ELSE "dedup"

\* summarize_article for one article: a reply on the first, second or third
\* provider call, or the fallback after three failed calls
ArticleOutcomes ==
    {[origin |-> "reply", calls |-> c] : c \in 1..SummaryMaxRetries}
        \cup {[origin |-> "fallback", calls |-> SummaryMaxRetries]}

\* the reply the provider gives in a pipeline run: a summary and three tags
JobReply ==
    <<"zhai", "yao", "colon_fw", "a", "b", "nl",
      "biao", "qian", "colon_fw", "x", "comma", "y", "comma", "z">>

\* summarize_article, lines 85-127: the output record of one article
SummarizedRecord(article, outcome) ==
    IF outcome.origin = "reply"
    THEN LET parsed == parse_llm_response(Strip(JobReply))
         IN  WithSummary(article, parsed.summary, parsed.bullets)
    ELSE WithSummary(article, FallbackSummary(article), DefaultBullets)

RECURSIVE SumCalls(_, _)
SumCalls(outcomes, k) ==
    IF k > Len(outcomes) THEN 0 ELSE outcomes[k].calls + SumCalls(outcomes, k + 1)

JobIdle ==
    /\ j_result = "idle"
    /\ j_next = 0
    /\ dry_run = FALSE
    /\ openai_key = FALSE
    /\ j_store = Store(NoFile, NoFile, NoFile, NoFile)
    /\ j_before = Store(NoFile, NoFile, NoFile, NoFile)
    /\ j_markdown = NoMarkdown
    /\ j_started = <<>>
    /\ j_returned = <<>>
    /\ j_fetched = <<>>
    /\ j_lost = "none"
    /\ j_summ_input = "none"
    /\ j_encode_calls = 0
    /\ j_provider_calls = 0
    /\ j_published = FALSE

\* NewsJob.__init__ and the working directory run_pipeline starts in: files of
\* the date left there by an earlier run or by somebody else may be present
JobInit ==
    /\ j_result = "running"
    /\ j_next = 1
    /\ dry_run \in BOOLEAN
    /\ openai_key \in BOOLEAN
    /\ j_store \in {Store(NoFile, select, dedup_file, summary) :
                      select \in {NoFile, File(<<>>), File(StaleDocument)},
                      dedup_file \in {NoFile, File(StaleDocument)},
                      summary \in {NoFile, File(StaleDocument)}}
    /\ j_before = j_store
    /\ j_markdown = NoMarkdown
    /\ j_started = <<>>
    /\ j_returned = <<>>
    /\ j_fetched = <<>>
    /\ j_lost = "none"
    /\ j_summ_input = "none"
    /\ j_encode_calls = 0
    /\ j_provider_calls = 0
    /\ j_published = FALSE

\* the step run_pipeline is about to call
StepDue(name) ==
    /\ j_result = "running"
    /\ j_next <= Len(Steps(dry_run))
    /\ Steps(dry_run)[j_next] = name

\* run_pipeline, lines 180-195: the step at hand has returned
StepReturns(name, ok, value) ==
    /\ j_started' = Append(j_started, name)
    /\ j_returned' = Append(j_returned, StepResult(ok, value))
    /\ j_result' = PipelineAfter(ok, j_next, dry_run).result
    /\ j_next' = PipelineAfter(ok, j_next, dry_run).next
    /\ j_before' = j_store
    /\ UNCHANGED <<dry_run, openai_key>>

\* run_fetcher, lines 46-68: fetch_all_sources returns the day's articles
\* and the step writes them to raw_<date>.json, or writing the file fails
JobFetcher(fetch) ==
    /\ UNCHANGED not_jvars
    /\ StepDue("Fetcher")
    /\ IF fetch.ok
       THEN /\ j_store' = [j_store EXCEPT !.raw = File(fetch.articles)]
            /\ j_fetched' = fetch.articles
       ELSE UNCHANGED <<j_store, j_fetched>>
    /\ StepReturns("Fetcher", fetch.ok, <<>>)
    /\ UNCHANGED <<j_markdown, j_lost, j_summ_input, j_encode_calls, j_provider_calls,
                   j_published>>

\* run_deduplicator, lines 70-89, with deduplicate_articles: raw_<date>.json
\* -> dedup_<date>.json.  removed: the input file has been removed from the
\* working directory since the Fetcher wrote it.
JobDeduplicator(removed, dups) ==
    /\ UNCHANGED not_jvars
    /\ StepDue("Deduplicator")
    /\ LET input == IF removed THEN NoFile ELSE j_store.raw
       IN  /\ dups \in DuplicateSets(input.content)
           /\ removed => dups = {}
           /\ j_lost' = IF removed THEN "raw" ELSE j_lost
           /\ IF ~input.exists
              THEN /\ j_store' = [j_store EXCEPT !.raw = input,
                                                 !.dedup = OutputAfterRaise(j_store.dedup)]
                   /\ StepReturns("Deduplicator", FALSE, <<>>)
                   /\ UNCHANGED j_encode_calls
              ELSE LET unique_articles == KeepUnmarked(input.content, dups)
                   IN  /\ j_store' = [j_store EXCEPT !.dedup = File(unique_articles)]
                       /\ j_encode_calls' = j_encode_calls + EmbeddingCalls(input.content)
                       /\ StepReturns("Deduplicator", TRUE, unique_articles)
    /\ UNCHANGED <<j_markdown, j_fetched, j_summ_input, j_provider_calls, j_published>>

\* run_summarizer, lines 91-116, with NewsSummarizer.__init__ and
\* summarize_articles: select_<date>.json or dedup_<date>.json ->
\* summary_<date>.json.  removed: dedup_<date>.json has been removed from the
\* working directory since the Deduplicator wrote it.
JobSummarizer(removed, outcomes) ==
    /\ UNCHANGED not_jvars
    /\ StepDue("Summarizer")
    /\ LET store == IF removed THEN [j_store EXCEPT !.dedup = NoFile] ELSE j_store
           name == SummarizerInput(store)
           input == IF name = "select" THEN store.select ELSE store.dedup
       IN  /\ outcomes \in [1..(IF openai_key /\ input.exists THEN Len(input.content) ELSE 0)
                               -> ArticleOutcomes]
           /\ j_lost' = IF removed THEN "dedup" ELSE j_lost
           /\ j_summ_input' = name
           /\ IF ~openai_key \/ ~input.exists
              THEN /\ j_store' = [store EXCEPT !.summary = OutputAfterRaise(store.summary)]
                   /\ StepReturns("Summarizer", FALSE, <<>>)
                   /\ UNCHANGED j_provider_calls
              ELSE LET summarized ==
                           [k \in 1..Len(input.content) |->
                               SummarizedRecord(input.content[k], outcomes[k])]
                   IN  /\ j_store' = [store EXCEPT !.summary = File(summarized)]
                       /\ j_provider_calls' = j_provider_calls + SumCalls(outcomes, 1)
                       /\ StepReturns("Summarizer", TRUE, summarized)
    /\ UNCHANGED <<j_markdown, j_fetched, j_encode_calls, j_published>>

\* run_writer, lines 118-136, with write_markdown_file, lines 176-184: a
\* missing input raises FileNotFoundError, an empty one ValueError; otherwise
\* content/news/<date>/index.md is written from the records
JobWriter ==
    /\ UNCHANGED not_jvars
    /\ StepDue("Writer")
    /\ IF ~j_store.summary.exists \/ j_store.summary.content = <<>>
       THEN /\ StepReturns("Writer", FALSE, <<>>)
            /\ UNCHANGED j_markdown
       ELSE /\ j_markdown' = Markdown(j_store.summary.content)
            /\ StepReturns("Writer", TRUE, <<>>)
    /\ UNCHANGED <<j_store, j_fetched, j_lost, j_summ_input, j_encode_calls,
                   j_provider_calls, j_published>>

\* run_publisher, lines 138-161: publish returns True, returns False, or raises
JobPublisher(outcome) ==
    /\ UNCHANGED not_jvars
    /\ StepDue("Publisher")
    /\ j_published' = (outcome = "True")
    /\ StepReturns("Publisher", outcome = "True", <<>>)
    /\ UNCHANGED <<j_store, j_markdown, j_fetched, j_lost, j_summ_input, j_encode_calls,
                   j_provider_calls>>

JobNext ==
    \/ \E fetch \in {[ok |-> TRUE, articles |-> doc] : doc \in FetchedDocuments}
                       \cup {[ok |-> FALSE, articles |-> <<>>]} : JobFetcher(fetch)
    \/ \E removed \in BOOLEAN, dups \in SUBSET (1..MaxJobArticles) :
          JobDeduplicator(removed, dups)
    \/ \E removed \in BOOLEAN :
          \E outcomes \in UNION {[1..n -> ArticleOutcomes] : n \in 0..MaxJobArticles} :
             JobSummarizer(removed, outcomes)
    \/ JobWriter
    \/ \E outcome \in {"True", "False", "raised"} : JobPublisher(outcome)

(***************************************************************************)
(* The Publisher (publisher.py): publish runs git status, git add,         *)
(* git commit and npm run deploy in the blog repository.  Each command is  *)
(* a subprocess; its outcome is the environment's choice.                  *)
(***************************************************************************)
\* subprocess.run(..., check=True): the command exits with 0, exits with
\* another code (CalledProcessError), or cannot be started (OSError)
CommandOutcomes == {"ok", "failed", "os_error"}

\* git commit with nothing staged exits with 1 and says so on stdout
CommitOutcomes == CommandOutcomes \cup {"nothing_to_commit"}

Op(name, outcome) == [op |-> name, outcome |-> outcome]

CleanRepo == [dirty |-> FALSE, staged |-> FALSE, committed |-> FALSE, deployed |-> FALSE]

PublishIdle ==
    /\ pub_pc = "idle"
    /\ pub_caller = "none"
    /\ auto_push = FALSE
    /\ pub_repo = CleanRepo
    /\ pub_ops = <<>>
    /\ pub_result = "none"
    /\ pub_exit = "none"

\* publish is called: by run_publisher with auto_push=True (job.py line 147),
\* or by main with auto_push unless --no-push is given (lines 479-491); the
\* working tree of the repository holds changes or not, and so does its index
PublishInit ==
    /\ pub_pc = "status"
    /\ pub_caller \in {"run_publisher", "main"}
    /\ auto_push \in BOOLEAN
    /\ pub_caller = "run_publisher" => auto_push
    /\ pub_repo \in {[CleanRepo EXCEPT !.dirty = d, !.staged = g] : d, g \in BOOLEAN}
    /\ pub_ops = <<>>
    /\ pub_result = "none"
    /\ pub_exit = "none"

\* publish leaves with a value, or an OSError of the subprocess leaves it
Leaves(run, value) == IF run = "os_error" THEN "raised" ELSE value

\* check_git_status, lines 197-227: True if git status --porcelain printed
\* something, False if it printed nothing and False if the command failed
HasChanges(run, repo) == run = "ok" /\ (repo.dirty \/ repo.staged)

\* publish, lines 442-445: without changes publish returns True at once
CheckGitStatus(run) ==
    /\ UNCHANGED not_pubvars
    /\ pub_pc = "status"
    /\ pub_ops' = Append(pub_ops, Op("status", run))
    /\ IF HasChanges(run, pub_repo)
       THEN /\ pub_pc' = "stage"
            /\ UNCHANGED pub_result
       ELSE /\ pub_pc' = "done"
            /\ pub_result' = Leaves(run, "True")
    /\ UNCHANGED <<pub_caller, auto_push, pub_repo, pub_exit>>

\* stage_changes, lines 229-252, and publish, lines 447-450
StageChanges(run) ==
    /\ UNCHANGED not_pubvars
    /\ pub_pc = "stage"
    /\ pub_ops' = Append(pub_ops, Op("stage", run))
    /\ IF run = "ok"
       THEN /\ pub_pc' = "commit"
            /\ pub_repo' = [pub_repo EXCEPT !.dirty = FALSE, !.staged = TRUE]
            /\ UNCHANGED pub_result
       ELSE /\ pub_pc' = "done"
            /\ pub_result' = Leaves(run, "False")
            /\ UNCHANGED pub_repo
    /\ UNCHANGED <<pub_caller, auto_push, pub_exit>>

\* commit_changes, lines 254-287: True if git commit succeeded or said
\* "nothing to commit"
Committed(run) == run \in {"ok", "nothing_to_commit"}

\* publish, lines 452-463: after the commit the deployment, if auto_push
CommitChanges(run) ==
    /\ UNCHANGED not_pubvars
    /\ pub_pc = "commit"
    /\ pub_ops' = Append(pub_ops, Op("commit", run))
    /\ pub_repo' = IF run = "ok"
                   THEN [pub_repo EXCEPT !.staged = FALSE, !.committed = TRUE]
                   ELSE pub_repo
    /\ IF Committed(run) /\ auto_push
       THEN /\ pub_pc' = "deploy"
            /\ UNCHANGED pub_result
       ELSE /\ pub_pc' = "done"
            /\ pub_result' = Leaves(run, IF Committed(run) THEN "True" ELSE "False")
    /\ UNCHANGED <<pub_caller, auto_push, pub_exit>>

\* run_deploy_command, lines 398-426, and publish, lines 457-466
RunDeployCommand(run) ==
    /\ UNCHANGED not_pubvars
    /\ pub_pc = "deploy"
    /\ pub_ops' = Append(pub_ops, Op("deploy", run))
    /\ pub_repo' = [pub_repo EXCEPT !.deployed = (run = "ok")]
    /\ pub_pc' = "done"
    /\ pub_result' = Leaves(run, IF run = "ok" THEN "True" ELSE "False")
    /\ UNCHANGED <<pub_caller, auto_push, pub_exit>>

\* the caller: run_publisher returns the value and False for an exception
\* (job.py lines 149-161); main exits with 1 unless publish returned True
\* (publisher.py lines 487-499)
CallerOutcome(caller, result) ==
    IF caller = "run_publisher"
    THEN (IF result = "True" THEN "True" ELSE "False")
    ELSE (IF result = "True" THEN "exit_0" ELSE "exit_1")

PublishReturns ==
    /\ UNCHANGED not_pubvars
    /\ pub_pc = "done"
    /\ pub_pc' = "returned"
    /\ pub_exit' = CallerOutcome(pub_caller, pub_result)
    /\ UNCHANGED <<pub_caller, auto_push, pub_repo, pub_ops, pub_result>>

PublishNext ==
    \/ \E run \in CommandOutcomes : CheckGitStatus(run)
    \/ \E run \in CommandOutcomes : StageChanges(run)
    \/ \E run \in CommitOutcomes : CommitChanges(run)
    \/ \E run \in CommandOutcomes : RunDeployCommand(run)
    \/ PublishReturns

(***************************************************************************)
(* The scheduler commands (scheduler.py).  Each command runs in a process  *)
(* of its own; the processes share the PID file and today's date.  A step  *)
(* is one call of is_running, one write or removal of the PID file, one    *)
(* signal sent or handled, the begin or the end of a pipeline run.         *)
(***************************************************************************)
Procs == 1..MaxProcesses

\* main, lines 371-396: the commands that start a daemon or a pipeline run
Commands == {"start", "run_now", "restart"}

NoPid == 0

\* the pid of a process that no longer exists, left in the PID file
StalePid == MaxProcesses + 1

\* os.kill(pid, 0) succeeds: a process with this pid exists
Exists(pid, pc) == pid \in Procs /\ pc[pid] # "exited"

\* is_running, lines 123-138: True if the PID file names a process that exists
IsRunning(file, pc) == file # NoPid /\ Exists(file, pc)

\* is_running, lines 135-138, and remove_pid_file: a file that names no
\* process is removed
AfterIsRunning(file, pc) == IF IsRunning(file, pc) THEN file ELSE NoPid

\* main: where each command begins
FirstPosition(command) ==
    IF command = "start" THEN "start"
    ELSE IF command = "run_now" THEN "run_now"
    ELSE "stop"

SchedIdle ==
    /\ sc_command = [p \in Procs |-> "none"]
    /\ sc_pc = [p \in Procs |-> "idle"]
    /\ pid_file = NoPid
    /\ sc_sigterm = {}
    /\ sc_pipeline = {}
    /\ sc_runs = [p \in Procs |-> 0]
    /\ sc_target = [p \in Procs |-> NoPid]

\* the commands are issued; no daemon is running, the PID file is absent or
\* was left behind by a process that was killed
SchedInit ==
    /\ sc_command \in [Procs -> Commands]
    /\ sc_pc = [p \in Procs |-> FirstPosition(sc_command[p])]
    /\ pid_file \in {NoPid, StalePid}
    /\ sc_sigterm = {}
    /\ sc_pipeline = {}
    /\ sc_runs = [p \in Procs |-> 0]
    /\ sc_target = [p \in Procs |-> NoPid]

\* start, lines 175-177: the PID-file check
StartIsRunning(p) ==
    /\ UNCHANGED not_scvars
    /\ sc_pc[p] = "start"
    /\ sc_pc' = [sc_pc EXCEPT ![p] = IF IsRunning(pid_file, sc_pc) THEN "exited" ELSE "create"]
    /\ pid_file' = AfterIsRunning(pid_file, sc_pc)
    /\ UNCHANGED <<sc_command, sc_sigterm, sc_pipeline, sc_runs, sc_target>>

\* start, lines 185-222: create_pid_file, the job added with max_instances=1,
\* scheduler.start(), running = True
CreatePidFile(p) ==
    /\ UNCHANGED not_scvars
    /\ sc_pc[p] = "create"
    /\ pid_file' = p
    /\ sc_pc' = [sc_pc EXCEPT ![p] = "daemon"]
    /\ UNCHANGED <<sc_command, sc_sigterm, sc_pipeline, sc_runs, sc_target>>

\* the cron trigger fires in a daemon: execute_news_job begins unless an
\* instance of the job is running in this scheduler (max_instances=1)
CronFires(p) ==
    /\ UNCHANGED not_scvars
    /\ sc_pc[p] = "daemon"
    /\ p \notin sc_pipeline
    /\ sc_runs[p] < MaxPipelineRuns
    /\ sc_pipeline' = sc_pipeline \cup {p}
    /\ sc_runs' = [sc_runs EXCEPT ![p] = @ + 1]
    /\ UNCHANGED <<sc_command, sc_pc, pid_file, sc_sigterm, sc_target>>

\* run_now, lines 319-324: execute_news_job is called at once
RunNow(p) ==
    /\ UNCHANGED not_scvars
    /\ sc_pc[p] = "run_now"
    /\ sc_pc' = [sc_pc EXCEPT ![p] = "running_now"]
    /\ sc_pipeline' = sc_pipeline \cup {p}
    /\ sc_runs' = [sc_runs EXCEPT ![p] = @ + 1]
    /\ UNCHANGED <<sc_command, pid_file, sc_sigterm, sc_target>>

\* execute_news_job, lines 140-164: run_pipeline returns; after run-now the
\* process exits (main, lines 394-396)
PipelineEnds(p) ==
    /\ UNCHANGED not_scvars
    /\ p \in sc_pipeline
    /\ sc_pipeline' = sc_pipeline \ {p}
    /\ sc_pc' = [sc_pc EXCEPT ![p] = IF @ = "running_now" THEN "exited" ELSE @]
    /\ UNCHANGED <<sc_command, pid_file, sc_sigterm, sc_runs, sc_target>>

\* stop, lines 279-282, called by restart: without a running scheduler stop
\* returns and restart goes on to start
StopIsRunning(p) ==
    /\ UNCHANGED not_scvars
    /\ sc_pc[p] = "stop"
    /\ sc_pc' = [sc_pc EXCEPT ![p] = IF IsRunning(pid_file, sc_pc) THEN "stop_signal" ELSE "start"]
    /\ pid_file' = AfterIsRunning(pid_file, sc_pc)
    /\ UNCHANGED <<sc_command, sc_sigterm, sc_pipeline, sc_runs, sc_target>>

\* stop, lines 284-289: the pid is read and SIGTERM sent; a file or a process
\* that is gone by now raises and stop returns (lines 304-306)
StopSignal(p) ==
    /\ UNCHANGED not_scvars
    /\ sc_pc[p] = "stop_signal"
    /\ IF IsRunning(pid_file, sc_pc)
       THEN /\ sc_sigterm' = sc_sigterm \cup {pid_file}
            /\ sc_target' = [sc_target EXCEPT ![p] = pid_file]
            /\ sc_pc' = [sc_pc EXCEPT ![p] = "stop_wait"]
       ELSE /\ sc_pc' = [sc_pc EXCEPT ![p] = "start"]
            /\ UNCHANGED <<sc_sigterm, sc_target>>
    /\ UNCHANGED <<sc_command, pid_file, sc_pipeline, sc_runs>>

\* stop, lines 291-296: is_running is polled; once it is False stop returns
StopPoll(p) ==
    /\ UNCHANGED not_scvars
    /\ sc_pc[p] = "stop_wait"
    /\ ~IsRunning(pid_file, sc_pc)
    /\ pid_file' = NoPid
    /\ sc_pc' = [sc_pc EXCEPT ![p] = "start"]
    /\ UNCHANGED <<sc_command, sc_sigterm, sc_pipeline, sc_runs, sc_target>>

\* stop, lines 298-302: after ten polls the process whose pid was read is
\* killed and the PID file removed; if that process is gone, os.kill raises
\* and stop returns with the PID file as it is (lines 304-306)
StopForce(p) ==
    /\ UNCHANGED not_scvars
    /\ sc_pc[p] = "stop_wait"
    /\ IF Exists(sc_target[p], sc_pc)
       THEN /\ sc_pc' = [sc_pc EXCEPT ![p] = "start", ![sc_target[p]] = "exited"]
            /\ sc_pipeline' = sc_pipeline \ {sc_target[p]}
            /\ sc_sigterm' = sc_sigterm \ {sc_target[p]}
            /\ pid_file' = NoPid
       ELSE /\ sc_pc' = [sc_pc EXCEPT ![p] = "start"]
            /\ UNCHANGED <<sc_pipeline, sc_sigterm, pid_file>>
    /\ UNCHANGED <<sc_command, sc_runs, sc_target>>

\* _signal_handler and shutdown, lines 101-105 and 262-276: the scheduler is
\* shut down with wait=True, so a running job is waited for; then the PID
\* file is removed, whatever pid it holds
Shutdown(p) ==
    /\ UNCHANGED not_scvars
    /\ sc_pc[p] = "daemon"
    /\ p \in sc_sigterm
    /\ p \notin sc_pipeline
    /\ sc_sigterm' = sc_sigterm \ {p}
    /\ pid_file' = NoPid
    /\ sc_pc' = [sc_pc EXCEPT ![p] = "leaving"]
    /\ UNCHANGED <<sc_command, sc_pipeline, sc_runs, sc_target>>

\* atexit.register(self.shutdown), line 187: when the daemon's process exits,
\* shutdown runs again and removes the PID file again
AtExit(p) ==
    /\ UNCHANGED not_scvars
    /\ sc_pc[p] = "leaving"
    /\ pid_file' = NoPid
    /\ sc_pc' = [sc_pc EXCEPT ![p] = "exited"]
    /\ UNCHANGED <<sc_command, sc_sigterm, sc_pipeline, sc_runs, sc_target>>

SchedNext ==
    \E p \in Procs :
        \/ StartIsRunning(p)
        \/ CreatePidFile(p)
        \/ CronFires(p)
        \/ RunNow(p)
        \/ PipelineEnds(p)
        \/ StopIsRunning(p)
        \/ StopSignal(p)
        \/ StopPoll(p)
        \/ StopForce(p)
        \/ Shutdown(p)
        \/ AtExit(p)

(***************************************************************************)
(* The specifications: one per component, the others idle.                 *)
(***************************************************************************)
InitDedup ==
    DedupInit /\ RetryIdle /\ FetchIdle /\ SummIdle /\ RelevanceIdle
        /\ ParseIdle /\ JobIdle /\ PublishIdle /\ SchedIdle

SpecDedup == InitDedup /\ [][DedupNext]_vars

InitRetry ==
    RetryInit /\ DedupIdle /\ FetchIdle /\ SummIdle /\ RelevanceIdle
        /\ ParseIdle /\ JobIdle /\ PublishIdle /\ SchedIdle

SpecRetry == InitRetry /\ [][RetryNext]_vars

InitFetch ==
    FetchInit /\ DedupIdle /\ RetryIdle /\ SummIdle /\ RelevanceIdle
        /\ ParseIdle /\ JobIdle /\ PublishIdle /\ SchedIdle

SpecFetch == InitFetch /\ [][FetchNext]_vars

InitSumm ==
    SummInit /\ DedupIdle /\ RetryIdle /\ FetchIdle /\ RelevanceIdle
        /\ ParseIdle /\ JobIdle /\ PublishIdle /\ SchedIdle

SpecSumm == InitSumm /\ [][SummNext]_vars

InitRelevance ==
    RelevanceInit /\ DedupIdle /\ RetryIdle /\ FetchIdle /\ SummIdle
        /\ ParseIdle /\ JobIdle /\ PublishIdle /\ SchedIdle

SpecRelevance == InitRelevance /\ [][RelevanceNext]_vars

InitParse ==
    ParseInit /\ DedupIdle /\ RetryIdle /\ FetchIdle /\ SummIdle /\ RelevanceIdle
        /\ JobIdle /\ PublishIdle /\ SchedIdle

SpecParse == InitParse /\ [][ParseNext]_vars

InitJob ==
    JobInit /\ DedupIdle /\ RetryIdle /\ FetchIdle /\ SummIdle /\ RelevanceIdle
        /\ ParseIdle /\ PublishIdle /\ SchedIdle

SpecJob == InitJob /\ [][JobNext]_vars

InitPublish ==
    PublishInit /\ DedupIdle /\ RetryIdle /\ FetchIdle /\ SummIdle /\ RelevanceIdle
        /\ ParseIdle /\ JobIdle /\ SchedIdle

SpecPublish == InitPublish /\ [][PublishNext]_vars

InitSched ==
    SchedInit /\ DedupIdle /\ RetryIdle /\ FetchIdle /\ SummIdle /\ RelevanceIdle
        /\ ParseIdle /\ JobIdle /\ PublishIdle

SpecSched == InitSched /\ [][SchedNext]_vars

(***************************************************************************)
(* Properties of the Deduplicator (checked under SpecDedup).               *)
(***************************************************************************)
\* the urls of the records of a document (each record's unique key)
UrlsOf(doc) == {doc[k].url : k \in 1..Len(doc)}

\* C1: when deduplicate_articles has returned, its output is a subsequence of
\* its input: not longer, made of input records only, in their original
\* relative order, and exactly the records whose index was not marked.
C1_OutputIsSubsequence ==
    d_pc = "done" =>
        /\ Len(d_output_file.content) <= Len(d_input_file.content)
        /\ IsSubsequence(d_output_file.content, d_input_file.content)
        /\ UrlsOf(d_output_file.content) =
              {d_input_file.content[k].url :
                  k \in {m \in 1..Len(d_input_file.content) : (m - 1) \notin duplicates_to_remove}}
        /\ Len(d_output_file.content) = Cardinality(UrlsOf(d_output_file.content))

\* a run on three records that removed the middle one and kept the other two
C1_Witness ==
    /\ d_pc = "done"
    /\ d_run = 1
    /\ Len(d_input_file.content) = 3
    /\ duplicates_to_remove = {1}
    /\ d_output_file.content = <<d_input_file.content[1], d_input_file.content[3]>>

\* C3: deduplication is idempotent: the run on the first run's output marks
\* no record and writes that output again, unchanged.
C3_Idempotent ==
    /\ (d_run = 2 => d_pc # "raised")
    /\ (d_run = 2 /\ d_pc \in {"outer", "inner", "collect", "done"} => duplicates_to_remove = {})
    /\ (d_run = 2 /\ d_pc = "done" => d_output_file = d_first_output)

\* a second run, finished, over an output of two records that the first run
\* had cut down from three
C3_Witness ==
    /\ d_run = 2
    /\ d_pc = "done"
    /\ Len(d_first_input.content) = 3
    /\ Len(d_first_output.content) = 2
    /\ compared = {<<0, 1>>}
    /\ d_output_file = d_first_output

\* C4: on a two-record input the later record is removed iff the similarity
\* of the pair is at least the threshold (0.85): it is removed at exactly
\* 0.85 and at 0.90, kept at 0.80, and the first record is always kept.
C4_InclusiveBoundary ==
    (d_pc = "done" /\ d_run = 1 /\ Len(d_input_file.content) = 2) =>
        LET a == d_input_file.content[1]
            b == d_input_file.content[2]
            s == title_sim[<<a.title, b.title>>]
        IN  /\ (1 \in duplicates_to_remove) <=> (s >= 85)
            /\ 0 \notin duplicates_to_remove
            /\ s \in {85, 90} => d_output_file.content = <<a>>
            /\ s = 80 => d_output_file.content = <<a, b>>

\* a two-record run whose pair is exactly at the threshold and lost its second record
C4_Witness ==
    /\ d_pc = "done"
    /\ d_run = 1
    /\ Len(d_input_file.content) = 2
    /\ title_sim[<<d_input_file.content[1].title, d_input_file.content[2].title>>] = 85
    /\ d_output_file.content = <<d_input_file.content[1]>>

\* the case of C5: three records A, B, C with A-B and B-C at or over the
\* threshold and A-C under it
C5_Case ==
    /\ d_pc = "done"
    /\ d_run = 1
    /\ Len(d_input_file.content) = 3
    /\ title_sim[<<d_input_file.content[1].title, d_input_file.content[2].title>>] >= 85
    /\ title_sim[<<d_input_file.content[2].title, d_input_file.content[3].title>>] >= 85
    /\ title_sim[<<d_input_file.content[1].title, d_input_file.content[3].title>>] < 85

\* C5 as stated: in that case C is removed as well as B, the output is [A].
C5_Original_ChainRemovesC ==
    C5_Case => d_output_file.content = <<d_input_file.content[1]>>

\* C5 as amended: in that case only B is removed; C is compared with A alone
\* (B is marked and never used as a reference), so the output is [A, C].
C5_Amended_OnlyBRemoved ==
    C5_Case =>
        /\ duplicates_to_remove = {1}
        /\ compared = {<<0, 1>>, <<0, 2>>}
        /\ d_output_file.content = <<d_input_file.content[1], d_input_file.content[3]>>

\* the case of C5 happens, and C is in the output
C5_Witness ==
    /\ C5_Case
    /\ Len(d_output_file.content) = 2
    /\ d_output_file.content[2] = d_input_file.content[3]

(***************************************************************************)
(* Properties of the retry executor (checked under SpecRetry).             *)
(***************************************************************************)
\* the sleeps after the failures of attempts 0 .. n-1: 1, 2, 4, ... seconds
ExpectedSleeps(n) == [k \in 1..n |-> Pow2(k - 1)]

\* C7: _retry_request with max_retries = N >= 1 invokes func at most N times;
\* the first success is returned at once (no later invocation, no sleep after
\* it); after the failure of attempt k < N-1 it sleeps exactly 2^k seconds
\* before attempt k+1; after the N-th failure it does not sleep and raises
\* that last error.
C7_RetryBackoff ==
    r_exec.status # "idle" =>
        /\ r_exec.calls = Len(r_history)
        /\ r_exec.calls <= r_max_retries
        /\ \A k \in 1..(Len(r_history) - 1) : ~r_history[k].ok
        /\ r_exec.status = "running" =>
              /\ \A k \in 1..Len(r_history) : ~r_history[k].ok
              /\ r_exec.calls < r_max_retries
              /\ r_exec.attempt = r_exec.calls
              /\ r_exec.sleeps = ExpectedSleeps(r_exec.calls)
        /\ r_exec.status = "returned" =>
              /\ r_history[Len(r_history)].ok
              /\ r_exec.result = r_history[Len(r_history)].val
              /\ r_exec.sleeps = ExpectedSleeps(r_exec.calls - 1)
        /\ r_exec.status = "raised" =>
              /\ r_exec.calls = r_max_retries
              /\ ~r_history[Len(r_history)].ok
              /\ r_exec.result = r_history[Len(r_history)].val
              /\ r_exec.sleeps = ExpectedSleeps(r_max_retries - 1)

\* three failures out of three: sleeps of 1 and 2 seconds, then the last error raised
C7_Witness ==
    /\ r_max_retries = 3
    /\ r_exec.status = "raised"
    /\ r_exec.calls = 3
    /\ r_exec.sleeps = <<1, 2>>
    /\ r_history[1].val = "e1"
    /\ r_exec.result = "e2"

(***************************************************************************)
(* Properties of the source fetchers (checked under SpecFetch).            *)
(***************************************************************************)
\* the sources fetch_all_sources is through with, by its position
NewsapiFinished == f_pc \in {"guardian", "rss", "done"}

GuardianFinished == f_pc \in {"rss", "done"}

\* the concatenation of the sequences of a sequence
RECURSIVE Concat(_)
Concat(ss) == IF ss = <<>> THEN <<>> ELSE Head(ss) \o Concat(Tail(ss))

\* C8: a structured-search fetch, key present, whose HTTP request fails on
\* every attempt is attempted exactly max_retries = 3 times (sleeps of 1 and
\* 2 seconds in between) and yields an empty sequence; fetch_all_sources goes
\* on with the remaining sources and ends with raw_<date>.json written.
C8_FailedFetchYieldsEmpty ==
    /\ (f_last.source \in {"newsapi", "guardian"} /\ f_last.outcome \in {"http_failed", "read_failed", "failed"}) =>
          /\ f_last.calls = 3
          /\ f_last.sleeps = <<1, 2>>
    /\ (NewsapiFinished /\ f_status.newsapi = "http_failed") =>
          /\ newsapi_articles = <<>>
          /\ "newsapi" \in requested
    /\ (GuardianFinished /\ f_status.guardian = "http_failed") =>
          /\ guardian_articles = <<>>
          /\ "guardian" \in requested
    /\ (f_last.source = "newsapi" /\ f_last.outcome = "http_failed") => f_pc = "guardian"
    /\ (f_last.source = "guardian" /\ f_last.outcome = "http_failed") => (f_pc = "rss" /\ f_feed = 0)
    /\ f_pc = "done" =>
          /\ f_status.newsapi # "pending"
          /\ f_status.guardian # "pending"
          /\ Len(f_status.feeds) = MaxFeeds
          /\ raw_file.exists

\* NewsAPI failed in every request; the Guardian and the first feed were
\* fetched all the same and their records are in raw_<date>.json
C8_Witness ==
    /\ f_pc = "done"
    /\ f_status.newsapi = "http_failed"
    /\ "newsapi" \in requested
    /\ f_status.guardian = "ok"
    /\ guardian_articles # <<>>
    /\ f_status.feeds[1] = "ok"
    /\ Len(raw_file.content) >= 3

\* C9: in fetch_rss_feeds every feed of the list is fetched, in list order,
\* with a retry budget of its own (3 attempts, whatever happened to the feeds
\* before it); a feed that fails on all attempts is skipped and contributes
\* nothing, and what every other feed admitted is in the result; no failure
\* of a feed ends fetch_rss_feeds.
C9_FeedFailureIsolated ==
    /\ Len(f_status.feeds) = f_feed
    /\ Len(feed_admitted) = f_feed
    /\ f_feed <= MaxFeeds
    /\ rss_articles = Concat(feed_admitted)
    /\ \A k \in 1..Len(f_status.feeds) :
          f_status.feeds[k] \in {"http_failed", "read_failed", "failed"} => feed_admitted[k] = <<>>
    /\ f_pc = "rss" =>
          /\ f_exec.calls = f_exec.attempt
          /\ f_exec.attempt < 3
          /\ f_exec.sleeps = ExpectedSleeps(f_exec.calls)
    /\ (f_last.source = "rss" /\ f_last.outcome \in {"http_failed", "read_failed", "failed"}) =>
          /\ f_last.calls = 3
          /\ f_last.sleeps = <<1, 2>>
          /\ f_status.feeds[f_feed] \in {"http_failed", "read_failed", "failed"}
    /\ f_pc = "done" =>
          /\ f_feed = MaxFeeds
          /\ \A k \in 1..Len(rss_articles) :
                (rss_articles[k].title # <<>> /\ rss_articles[k].url # <<>>) =>
                    \E m \in 1..Len(raw_file.content) : raw_file.content[m] = rss_articles[k]

\* the first feed failed in all three requests, the second was fetched after
\* it (two requests) and its two admitted entries are the result
C9_Witness ==
    /\ f_pc = "done"
    /\ f_status.feeds[1] = "http_failed"
    /\ f_status.feeds[2] = "ok"
    /\ f_last.source = "rss"
    /\ f_last.calls = 2
    /\ Len(feed_admitted[2]) = 2
    /\ rss_articles = feed_admitted[2]
    /\ rss_articles[1].url = U("a")
    /\ rss_articles[2].url = U("b")

\* C10: a structured-search fetcher whose key is missing returns an empty
\* sequence without a single HTTP request, attempt or sleep, and
\* fetch_all_sources runs the other fetchers.
C10_MissingKeyNoRequest ==
    /\ (NewsapiFinished /\ ~newsapi_key) =>
          /\ f_status.newsapi = "no_key"
          /\ newsapi_articles = <<>>
          /\ "newsapi" \notin requested
    /\ (GuardianFinished /\ ~guardian_key) =>
          /\ f_status.guardian = "no_key"
          /\ guardian_articles = <<>>
          /\ "guardian" \notin requested
    /\ (f_pc = "newsapi" /\ ~newsapi_key) => (f_exec = RetryStart /\ "newsapi" \notin requested)
    /\ (f_pc = "guardian" /\ ~guardian_key) => (f_exec = RetryStart /\ "guardian" \notin requested)
    /\ f_last.outcome = "no_key" =>
          /\ f_last.calls = 0
          /\ f_last.sleeps = <<>>
    /\ (f_pc = "done" /\ ~newsapi_key) =>
          /\ f_status.guardian # "pending"
          /\ Len(f_status.feeds) = MaxFeeds
    /\ (f_pc = "done" /\ ~guardian_key) =>
          /\ f_status.newsapi # "pending"
          /\ Len(f_status.feeds) = MaxFeeds

\* no NewsAPI key: no request to NewsAPI, and the Guardian's and a feed's
\* records are fetched and written
C10_Witness ==
    /\ f_pc = "done"
    /\ ~newsapi_key
    /\ f_status.newsapi = "no_key"
    /\ "newsapi" \notin requested
    /\ f_status.guardian = "ok"
    /\ "guardian" \in requested
    /\ guardian_articles # <<>>
    /\ rss_articles # <<>>
    /\ raw_file.content # <<>>

(***************************************************************************)
(* Properties of the Summarizer (checked under SpecSumm).                  *)
(***************************************************************************)
\* the record summarized_articles[k] carries what the input record k carries
SameInputFields(k) ==
    /\ summarized_articles[k].title = s_input_file.content[k].title
    /\ summarized_articles[k].url = s_input_file.content[k].url
    /\ summarized_articles[k].description = s_input_file.content[k].description

\* C2: for a non-empty input list and whatever the provider does (any reply
\* text, failures on any attempts), summarize_articles returns a list as long
\* as the input, its k-th record made from the k-th input record, and every
\* output record has a non-empty summary and at least one tag in bullets.
C2_SameLengthNonEmptyFields ==
    /\ Len(summarized_articles) <= Len(s_input_file.content)
    /\ \A k \in 1..Len(summarized_articles) :
          /\ SameInputFields(k)
          /\ summarized_articles[k].summary # <<>>
          /\ Len(summarized_articles[k].bullets) >= 1
    /\ (s_input_file.exists /\ s_input_file.content # <<>>) =>
          /\ s_pc \in {"start", "loop", "done"}
          /\ s_exec.attempt < 3
          /\ s_pc = "done" =>
                /\ Len(summarized_articles) = Len(s_input_file.content)
                /\ s_output_file = File(summarized_articles)

\* two records: the first summarized from a reply of 20 plain characters
\* (placeholder summary, default tags), the second from a reply with both
\* markers after two failed attempts
C2_Witness ==
    /\ s_pc = "done"
    /\ Len(s_input_file.content) = 2
    /\ Len(s_output_file.content) = 2
    /\ s_origin = <<"reply", "reply">>
    /\ s_output_file.content[1].summary = <<"zhai", "yao", "jie", "xi", "shi", "bai">>
    /\ s_output_file.content[1].bullets = <<(<<"ke", "ji">>), (<<"xin", "wen">>)>>
    /\ s_output_file.content[2].summary = <<"a", "b">>
    /\ s_output_file.content[2].bullets = <<(<<"x">>), (<<"y">>), (<<"z">>)>>
    /\ s_last.calls = 3
    /\ total_tokens_used = 2 * ReplyTokens

\* the first 100 characters of the description of input record k ('' when
\* the record has none)
DescriptionHead100(k) ==
    LET d == s_input_file.content[k].description
        text == IF d.kind = "absent" THEN <<>> ELSE d.text
    IN  SubSeq(text, 1, IF Len(text) < 100 THEN Len(text) ELSE 100)

\* C6: when all 3 provider calls for an article fail, summarize_article does
\* not raise: the output record is the article with a summary made of the
\* first 100 characters of its description and the two default tags, the
\* provider was called exactly 3 times for it, and summarize_articles goes on
\* with every later article.
C6_FallbackAfterThreeFailures ==
    /\ Len(s_origin) = Len(summarized_articles)
    /\ \A k \in 1..Len(s_origin) :
          s_origin[k] = "fallback" =>
              /\ SameInputFields(k)
              /\ summarized_articles[k].summary =
                    <<"wu", "fa", "sheng", "cheng", "zhai", "yao", "colon_fw">>
                        \o DescriptionHead100(k) \o <<"dot", "dot", "dot">>
              /\ summarized_articles[k].bullets = <<(<<"ke", "ji">>), (<<"xin", "wen">>)>>
    /\ (s_origin # <<>> /\ s_origin[Len(s_origin)] = "fallback" /\ s_exec.calls = 0) =>
          /\ s_last.calls = 3
          /\ s_last.sleeps = <<1, 2>>
    /\ s_exec.calls = s_exec.attempt
    /\ s_exec.calls < 3
    /\ s_pc = "raised" => ~s_input_file.exists
    /\ s_pc = "done" => Len(summarized_articles) = Len(s_input_file.content)

\* the first of two records has a description of 101 characters and all its
\* three provider calls failed: its summary carries the first 100 characters;
\* the second record was summarized from a reply after it
C6_Witness ==
    /\ s_pc = "done"
    /\ s_origin = <<"fallback", "reply">>
    /\ Len(s_input_file.content[1].description.text) = 101
    /\ Len(s_output_file.content[1].summary) = 110
    /\ s_output_file.content[1].summary[107] = "d"
    /\ s_output_file.content[1].summary[108] = "dot"
    /\ s_output_file.content[2].summary = Repeat("p", 25)
    /\ s_last.calls = 1

(***************************************************************************)
(* Properties of fetch_all_sources' result (checked under SpecFetch).      *)
(***************************************************************************)
\* the record has a title, a url and a source
HasRequiredFields(r) == r.title # <<>> /\ r.url # <<>> /\ r.source # <<>>

\* _is_tech_related returned True on these two texts
WasAccepted(title, description) == <<title, description, TRUE>> \in PayloadVerdicts

\* C11: every record fetch_all_sources returns and writes to raw_<date>.json
\* has a non-empty title, url and source and passed the Relevance Filter (a
\* NewsAPI record on the hit's own description, which is empty when the
\* record's description was taken from the hit's content); the document is
\* the NewsAPI records, then the Guardian's, then the feeds', each in source
\* order, without the records that lack one of the three fields.
C11_RawDocumentValidAndOrdered ==
    /\ \A k \in 1..Len(newsapi_articles) :
          LET r == newsapi_articles[k] IN
          WasAccepted(r.title, r.description) \/ WasAccepted(r.title, <<>>)
    /\ \A k \in 1..Len(guardian_articles) :
          WasAccepted(guardian_articles[k].title, guardian_articles[k].description)
    /\ \A k \in 1..Len(rss_articles) :
          WasAccepted(rss_articles[k].title, rss_articles[k].description)
    /\ f_pc = "done" =>
          /\ raw_file.exists
          /\ raw_file.content =
                SelectSeq(newsapi_articles \o guardian_articles \o rss_articles,
                          HasRequiredFields)
          /\ \A k \in 1..Len(raw_file.content) : HasRequiredFields(raw_file.content[k])
    /\ f_pc # "done" => ~raw_file.exists

\* the three sources answered; the Guardian's record without url was dropped,
\* the others are written in the order NewsAPI, Guardian, feed
C11_Witness ==
    /\ f_pc = "done"
    /\ Len(newsapi_articles) = 2
    /\ Len(guardian_articles) = 2
    /\ guardian_articles[2].url = <<>>
    /\ Len(rss_articles) >= 2
    /\ Len(raw_file.content) = Len(rss_articles) + 3
    /\ raw_file.content[1].url = U("1")
    /\ raw_file.content[3].url = U("7")
    /\ raw_file.content[4].url = U("a")

(***************************************************************************)
(* Properties of the Relevance Filter (checked under SpecRelevance).       *)
(***************************************************************************)
\* the lower-cased title, a blank, the lower-cased description
LoweredText == Lower(rf_title) \o <<"sp">> \o Lower(rf_description)

\* the number of keywords of the list that occur in the text as substrings
Matches(keywords, text) ==
    Cardinality({k \in 1..Len(keywords) :
        \E m \in 1..Len(text) :
            m + Len(keywords[k]) - 1 <= Len(text)
            /\ SubSeq(text, m, m + Len(keywords[k]) - 1) = keywords[k]})

\* C12: _is_tech_related accepts a record if and only if no exclusion keyword
\* is a substring of its lower-cased title + description and the score, 2 per
\* high-priority keyword and 1 per science keyword that occurs, is at least 1;
\* an exclusion keyword rejects whatever the score, and a record without any
\* keyword is rejected.
C12_AcceptIffNotExcludedAndScored ==
    rf_pc = "done" =>
        LET excluded == Matches(exclude_keywords, LoweredText) > 0
            high == Matches(high_priority, LoweredText)
            science == Matches(science_keywords, LoweredText)
        IN  /\ rf_result = (~excluded /\ 2 * high + science >= 1)
            /\ rf_result = (~excluded /\ high + science >= 1)
            /\ excluded => ~rf_result
            /\ (high + science = 0) => ~rf_result
            /\ ~excluded => rf_tech_score = 2 * high + science

\* 'Software fix' / 'new gpu': two high-priority keywords occur, and
\* 'software' contains the exclusion keyword 'war': rejected
C12_Witness ==
    /\ rf_pc = "done"
    /\ rf_title = <<"S", "o", "f", "t", "w", "a", "r", "e", "sp", "f", "i", "x">>
    /\ rf_description = <<"n", "e", "w", "sp", "g", "p", "u">>
    /\ Matches(high_priority, rf_text_content) >= 2
    /\ ~rf_result

(***************************************************************************)
(* Properties of the reply parser (checked under SpecParse).               *)
(***************************************************************************)
\* the lines, in order, that are longer than 20 characters once stripped and
\* have no full-width colon
PlainLongLines ==
    {k \in 1..Len(p_lines) :
        /\ Len(Strip(p_lines[k])) > 20
        /\ \A m \in 1..Len(p_lines[k]) : p_lines[k][m] # "colon_fw"}

\* C13: when the scan of parse_llm_response sets no summary, the summary is
\* the first line, stripped, that is longer than 20 characters and has no
\* marker punctuation (the full-width colon), or the placeholder when there
\* is none; when the scan sets no tags, the tags are the two default tags.
\* A reply of one plain 25-character line gives that line and the default tags.
C13_ParserFallbacks ==
    p_pc = "done" =>
        /\ p_scan.summary # <<>> => p_summary = p_scan.summary
        /\ (p_scan.summary = <<>> /\ PlainLongLines = {}) =>
              p_summary = <<"zhai", "yao", "jie", "xi", "shi", "bai">>
        /\ (p_scan.summary = <<>> /\ PlainLongLines # {}) =>
              \E k \in PlainLongLines :
                  /\ \A m \in PlainLongLines : k <= m
                  /\ p_summary = Strip(p_lines[k])
        /\ p_scan.bullets # <<>> => p_bullets = p_scan.bullets
        /\ p_scan.bullets = <<>> => p_bullets = <<(<<"ke", "ji">>), (<<"xin", "wen">>)>>
        /\ p_content = Repeat("p", 25) =>
              /\ p_summary = Repeat("p", 25)
              /\ p_bullets = <<(<<"ke", "ji">>), (<<"xin", "wen">>)>>
        /\ p_summary = parse_llm_response(p_content).summary
        /\ p_bullets = parse_llm_response(p_content).bullets

\* no marker: a line of 25 characters with a full-width colon, a line of 20
\* plain characters, a line of 25 plain characters, which is the summary
C13_Witness ==
    /\ p_pc = "done"
    /\ Len(p_lines) = 3
    /\ Len(p_lines[1]) = 25
    /\ p_lines[1][13] = "colon_fw"
    /\ Strip(p_lines[2]) = Repeat("q", 20)
    /\ p_scan.summary = <<>>
    /\ p_scan.bullets = <<>>
    /\ p_summary = Repeat("p", 25)
    /\ Len(p_bullets) = 2


\* the provider calls made for the article attempted last
CallsOfLastAttempted == IF s_exec.calls > 0 THEN s_exec.calls ELSE s_last.calls

\* C19: an authentication error from the completion provider is fatal and is
\* not retried: after an authentication error on the first provider call for
\* an article, no second provider call is made for that article.
C19_Original_AuthErrorNotRetried ==
    (s_errors # <<>> /\ s_errors[1] = "auth_error") => CallsOfLastAttempted = 1

\* the tag lists the replies of the pool carry
TagsOfReplies ==
    {<<(<<"x">>), (<<"y">>), (<<"z">>)>>,
     <<(<<"x">>), (<<"y">>)>>,
     <<(<<"x">>)>>,
     <<(<<"t">>), (<<"u">>), (<<"v">>), (<<"x">>), (<<"y">>), (<<"z">>)>>}

\* C20 as stated: after the Summarizer stage every record's bullets has
\* between 3 and 5 tags when it came from a provider reply and exactly 2 when
\* a fallback was used; no record has 1 tag or more than 5.
C20_Original_ThreeToFiveTags ==
    \A k \in 1..Len(summarized_articles) :
       /\ s_origin[k] = "reply" =>
             (Len(summarized_articles[k].bullets) >= 3
                 /\ Len(summarized_articles[k].bullets) <= 5)
       /\ s_origin[k] = "fallback" => Len(summarized_articles[k].bullets) = 2

\* C20 as the code has it: after the Summarizer stage every record's bullets
\* has at least one tag; a record made by the fallback has exactly the two
\* default tags; a record made from a provider reply has the tags the reply
\* lists, however many (one and six included), or the two default tags when
\* the reply lists none.
C20_Amended_TagsAsReplied ==
    /\ Len(s_origin) = Len(summarized_articles)
    /\ \A k \in 1..Len(summarized_articles) :
          /\ Len(summarized_articles[k].bullets) >= 1
          /\ s_origin[k] = "fallback" =>
                summarized_articles[k].bullets = <<(<<"ke", "ji">>), (<<"xin", "wen">>)>>
          /\ s_origin[k] = "reply" =>
                summarized_articles[k].bullets \in
                    TagsOfReplies \cup {<<(<<"ke", "ji">>), (<<"xin", "wen">>)>>}

\* the stage is through with two records made from replies: the first has one
\* tag, the second six
C20_Witness ==
    /\ s_pc = "done"
    /\ s_origin = <<"reply", "reply">>
    /\ Len(summarized_articles[1].bullets) = 1
    /\ Len(summarized_articles[2].bullets) = 6

(***************************************************************************)
(* Properties of the pipeline run (checked under SpecJob).                 *)
(***************************************************************************)
\* the urls of the records of a staging file, in order
UrlSeq(file) == [k \in 1..Len(file.content) |-> file.content[k].url]

AllSteps == <<"Fetcher", "Deduplicator", "Summarizer", "Writer", "Publisher">>

\* C14: with an empty raw_<date>.json (and the provider credentials present)
\* the Deduplicator stage writes dedup_<date>.json as an empty array and
\* returns an empty list, and the Summarizer stage, reading that file, writes
\* summary_<date>.json as an empty array and returns an empty list; neither
\* raises, and neither the embedding provider nor the completion provider is
\* called.
C14_EmptyRawDocumentNoOps ==
    /\ (Len(j_returned) >= 2 /\ j_fetched = <<>> /\ j_lost = "none") =>
          /\ j_returned[2] = StepResult(TRUE, <<>>)
          /\ j_store.dedup = File(<<>>)
          /\ j_encode_calls = 0
    /\ (Len(j_returned) >= 3 /\ j_fetched = <<>> /\ j_lost = "none" /\ openai_key
            /\ j_summ_input = "dedup") =>
          /\ j_returned[3] = StepResult(TRUE, <<>>)
          /\ j_store.summary = File(<<>>)
          /\ j_provider_calls = 0

\* the Fetcher wrote an empty document over a working directory that held a
\* dedup and a summary document of one record each; both stages have run
C14_Witness ==
    /\ Len(j_returned) >= 3
    /\ j_returned[1].ok
    /\ j_fetched = <<>>
    /\ j_lost = "none"
    /\ openai_key
    /\ j_summ_input = "dedup"
    /\ j_store.dedup = File(<<>>)
    /\ j_store.summary = File(<<>>)

\* C15: when its input file does not exist the Deduplicator or Summarizer
\* stage raises before writing anything: the stage's output file is exactly
\* as it was, the step returns False, run_pipeline returns False and no later
\* step is called.
C15_MissingInputFailsBeforeWriting ==
    /\ j_lost = "raw" =>
          /\ j_started = <<"Fetcher", "Deduplicator">>
          /\ j_returned[2] = StepResult(FALSE, <<>>)
          /\ j_store.dedup = j_before.dedup
          /\ j_store.summary = j_before.summary
          /\ j_encode_calls = 0
          /\ j_result = "False"
    /\ (j_lost = "dedup" /\ j_summ_input = "dedup") =>
          /\ j_started = <<"Fetcher", "Deduplicator", "Summarizer">>
          /\ j_returned[3] = StepResult(FALSE, <<>>)
          /\ j_store.summary = j_before.summary
          /\ j_provider_calls = 0
          /\ j_markdown = NoMarkdown
          /\ j_result = "False"

\* dedup_<date>.json was gone when the Summarizer stage looked for it, with
\* the credentials present, no select_<date>.json and a summary document of an
\* earlier run in the working directory: that document is still there
C15_Witness ==
    /\ j_lost = "dedup"
    /\ j_summ_input = "dedup"
    /\ openai_key
    /\ j_fetched # <<>>
    /\ j_store.summary = File(StaleDocument)
    /\ j_result = "False"

\* C16: run_pipeline calls Fetcher, Deduplicator, Summarizer, Writer and then
\* Publisher, the last only when dry_run is false; a step is called only
\* after every earlier step returned True; after the first step that fails no
\* later step is called and run_pipeline returns False; it returns True
\* exactly when every scheduled step succeeded.
C16_StepsInOrderUntilFirstFailure ==
    /\ Len(j_started) <= Len(AllSteps)
    /\ \A k \in 1..Len(j_started) : j_started[k] = AllSteps[k]
    /\ dry_run => Len(j_started) <= 4
    /\ Len(j_returned) = Len(j_started)
    /\ \A k \in 1..(Len(j_returned) - 1) : j_returned[k].ok
    /\ j_result \in {"running", "True", "False"}
    /\ j_result = "False" <=> (j_returned # <<>> /\ ~j_returned[Len(j_returned)].ok)
    /\ j_result = "True" <=>
          /\ Len(j_returned) = (IF dry_run THEN 4 ELSE 5)
          /\ \A k \in 1..Len(j_returned) : j_returned[k].ok
    /\ j_published => (j_result = "True" /\ ~dry_run)

\* a run that is not a dry run went through its five steps and returned True
C16_Witness ==
    /\ ~dry_run
    /\ j_started = AllSteps
    /\ j_result = "True"
    /\ j_published

\* C17 as stated: the Summarizer stage takes as input the document the
\* Deduplicator stage of that run wrote (dedup_<date>.json), whatever other
\* files exist in the working directory, and after a successful run
\* summary_<date>.json has one record for every record of dedup_<date>.json.
C17_Original_SummarizerReadsDedup ==
    (Len(j_returned) >= 3 /\ j_returned[3].ok) =>
        /\ j_summ_input = "dedup"
        /\ UrlSeq(j_store.summary) = UrlSeq(j_store.dedup)

\* C17 as the code has it: the Summarizer stage takes select_<date>.json as
\* input when that file exists in the working directory, and only otherwise
\* the document the Deduplicator stage wrote; after a successful step
\* summary_<date>.json has one record for every record of the file taken, in
\* the same order.
C17_Amended_SummarizerReadsSelectFirst ==
    (Len(j_returned) >= 3 /\ j_returned[3].ok) =>
        /\ j_summ_input = (IF j_store.select.exists THEN "select" ELSE "dedup")
        /\ j_store.select.exists => UrlSeq(j_store.summary) = UrlSeq(j_store.select)
        /\ ~j_store.select.exists => UrlSeq(j_store.summary) = UrlSeq(j_store.dedup)

\* the run succeeded with two records in dedup_<date>.json and a
\* select_<date>.json of one other record in the working directory: the
\* summary document has that one record
C17_Witness ==
    /\ j_result = "True"
    /\ j_lost = "none"
    /\ UrlSeq(j_store.dedup) = <<1, 2>>
    /\ j_store.select = File(StaleDocument)
    /\ UrlSeq(j_store.summary) = <<0>>

\* C18: only structural failures stop a run: a run in which all sources
\* return zero articles is not an error, every stage no-ops on the empty
\* document and run_pipeline does not report failure (with the credentials
\* present and no other input in the working directory, only the Publisher
\* can still fail it).
C18_Original_EmptyRunDoesNotFail ==
    (/\ j_returned # <<>>
     /\ j_returned[1].ok
     /\ j_fetched = <<>>
     /\ openai_key
     /\ j_lost = "none"
     /\ ~j_store.select.exists
     /\ j_result = "False") => j_started = AllSteps

\* the record already carries the two fields the Summarizer adds
CarriesSummary(article) == {"summary", "bullets"} \subseteq DOMAIN article

\* C21: once a record carries summary and bullets those fields are never
\* re-derived: run on an input document whose records already have them, the
\* Summarizer leaves the two fields of each such record unchanged.
C21_Original_SummaryNeverRederived ==
    \A k \in 1..Len(summarized_articles) :
        CarriesSummary(s_articles[k]) =>
            /\ summarized_articles[k].summary = s_articles[k].summary
            /\ summarized_articles[k].bullets = s_articles[k].bullets

\* the document the Summarizer step of the run took as input
SummarizerInputContent ==
    IF j_summ_input = "select" THEN j_store.select.content ELSE j_store.dedup.content

\* C22: after the Fetch stage records are removed only by the Deduplicator
\* and are otherwise carried unmodified: the Deduplicator's output is a
\* selection, in order, of its input records, each field for field as it
\* was; the Summarizer's output has one record per input record, equal to it
\* on every field other than summary and bullets; the input documents are
\* left as they were.
C22_RecordsCarriedUnmodified ==
    /\ (Len(j_returned) >= 2 /\ j_returned[2].ok) =>
          /\ IsSubsequence(j_returned[2].value, j_fetched)
          /\ j_lost = "none" =>
                /\ j_store.dedup = File(j_returned[2].value)
                /\ j_store.raw = File(j_fetched)
    /\ (Len(j_returned) >= 3 /\ j_returned[3].ok) =>
          /\ j_store.summary = File(j_returned[3].value)
          /\ Len(j_returned[3].value) = Len(SummarizerInputContent)
          /\ \A k \in 1..Len(SummarizerInputContent) :
                /\ DOMAIN j_returned[3].value[k] =
                      DOMAIN SummarizerInputContent[k] \cup {"summary", "bullets"}
                /\ \A field \in DOMAIN SummarizerInputContent[k] \ {"summary", "bullets"} :
                      j_returned[3].value[k][field] = SummarizerInputContent[k][field]
          /\ j_store.select = j_before.select
          /\ j_lost = "none" => j_store.dedup = File(j_returned[2].value)

\* of two fetched records the Deduplicator removed the second, and the
\* Summarizer made one record with a summary from the one left
C22_Witness ==
    /\ Len(j_returned) >= 3
    /\ j_returned[3].ok
    /\ j_lost = "none"
    /\ j_summ_input = "dedup"
    /\ Len(j_fetched) = 2
    /\ j_store.dedup = File(<<j_fetched[1]>>)
    /\ Len(j_store.summary.content) = 1
    /\ j_store.summary.content[1].url = 1
    /\ j_store.summary.content[1].description = j_fetched[1].description
    /\ j_store.summary.content[1].summary # <<>>

(***************************************************************************)
(* More properties of the fetchers (checked under SpecFetch).              *)
(***************************************************************************)
\* the links of the feed entries that must not be admitted: the entry
\* published two days after the target date, the entry without any date, and
\* the 21st entry of the long feed
RejectedLinks == {U("c"), U("d"), U("g")}

\* the links of the relevant entries dated within a day of the target date:
\* published on the day, and updated the day before
DatedLinks == {U("a"), U("b")}

\* C23: the RSS fetcher considers only the first 20 entries of each feed and
\* admits an entry only if it has a publish (or updated) date within one day
\* of the target date: entries dated two or more days away, entries without
\* any date and entries at position 21 or later are never in the result.
C23_RssFirstTwentyWithinOneDay ==
    /\ \A k \in 1..Len(rss_articles) :
          /\ rss_articles[k].url \notin RejectedLinks
          /\ rss_articles[k].url \in DatedLinks
    /\ \A f \in 1..Len(feed_admitted) :
          \A k \in 1..Len(feed_admitted[f]) : feed_admitted[f][k].url \in DatedLinks
    /\ f_pc = "done" =>
          \A k \in 1..Len(raw_file.content) : raw_file.content[k].url \notin RejectedLinks

\* the first feed carried the entry two days away, the entry without date,
\* the entry updated the day before and an irrelevant one: only the third
\* was admitted; the second feed admitted nothing
C23_Witness ==
    /\ f_pc = "done"
    /\ Len(feed_admitted) = 2
    /\ f_status.feeds = <<"ok", "ok">>
    /\ Len(feed_admitted[1]) = 1
    /\ feed_admitted[1][1].url = U("b")
    /\ feed_admitted[2] = <<>>
    /\ rss_articles = feed_admitted[1]

\* C28: in a structured-search fetcher one hit whose mapping raises (a hit
\* whose description is null) does not cost the other hits of the same
\* response: its valid hits are still returned by fetch_newsapi and
\* fetch_guardian.  Every response of the pool that holds such a hit also
\* holds a valid hit with a well-formed description.
C28_Original_BadHitCostsNoOtherHit ==
    /\ (NewsapiFinished /\ f_status.newsapi = "read_failed") => newsapi_articles # <<>>
    /\ (GuardianFinished /\ f_status.guardian = "read_failed") => guardian_articles # <<>>

(***************************************************************************)
(* More properties of the Deduplicator (checked under SpecDedup).          *)
(***************************************************************************)
\* find_duplicates has gone through all its comparisons
ComparisonsDone == d_pc \in {"collect", "done"} /\ articles # <<>>

\* C25: after the Deduplicator has run no two surviving records are
\* near-duplicates of each other: for every pair of indices i < j that
\* find_duplicates leaves unmarked, similarity(i, j) is under the threshold.
C25_SurvivorsPairwiseDistinct ==
    /\ ComparisonsDone =>
          \A i \in 0..(Len(articles) - 1) : \A j \in (i + 1)..(Len(articles) - 1) :
             (i \notin duplicates_to_remove /\ j \notin duplicates_to_remove) =>
                 /\ similarity_matrix[i][j] < 85
                 /\ <<i, j>> \in compared
    /\ d_pc = "done" =>
          \A a \in 1..Len(d_output_file.content) : \A b \in (a + 1)..Len(d_output_file.content) :
             title_sim[<<d_output_file.content[a].title, d_output_file.content[b].title>>] < 85

\* three records, the second a near-duplicate of the first and of the third,
\* the third not one of the first: the first and the third survive
C25_Witness ==
    /\ d_pc = "done"
    /\ d_run = 1
    /\ Len(articles) = 3
    /\ similarity_matrix[0][1] = 90
    /\ similarity_matrix[1][2] = 90
    /\ similarity_matrix[0][2] = 80
    /\ duplicates_to_remove = {1}
    /\ Len(d_output_file.content) = 2

\* C26: every record the Deduplicator removes is a near-duplicate of an
\* earlier record that is kept: for every marked index j there is an index
\* i < j, never marked, with similarity(i, j) at or over the threshold; a
\* marked record is never used as the reference i of a comparison; index 0 is
\* never marked.
C26_RemovedHasKeptReference ==
    /\ 0 \notin duplicates_to_remove
    /\ \A pair \in compared :
          /\ pair[1] < pair[2]
          /\ pair[1] \notin duplicates_to_remove
    /\ \A j \in duplicates_to_remove :
          \E i \in 0..(j - 1) :
             /\ i \notin duplicates_to_remove
             /\ <<i, j>> \in compared
             /\ similarity_matrix[i][j] >= 85

\* three records, the second and the third both near-duplicates of the
\* first: both are removed with the first as their reference, and the second,
\* once marked, is not compared with the third
C26_Witness ==
    /\ d_pc = "done"
    /\ d_run = 1
    /\ Len(articles) = 3
    /\ duplicates_to_remove = {1, 2}
    /\ similarity_matrix[1][2] = 90
    /\ compared = {<<0, 1>>, <<0, 2>>}

(***************************************************************************)
(* More properties of the reply parser (checked under SpecParse).          *)
(***************************************************************************)
\* the line the scan read last, stripped
LastLine == Strip(p_lines[p_k])

\* the scan has read a line, and p_prev and p_scan are the scan's variables
\* before and after it
LineScanned == p_pc \in {"scan", "done"} /\ p_k >= 1

BeginsWith(line, marker) ==
    Len(line) >= Len(marker) /\ SubSeq(line, 1, Len(marker)) = marker

\* what follows the first three characters of the line, stripped
RestOfLine(line) == Strip(SubSeq(line, 4, Len(line)))

\* the line starts with neither marker
PlainLine(line) ==
    /\ line # <<>>
    /\ ~BeginsWith(line, <<"zhai", "yao", "colon_fw">>)
    /\ ~BeginsWith(line, <<"biao", "qian", "colon_fw">>)

\* a line starting with the summary marker has been read before the last line
SummaryMarkerSeenBefore ==
    \E m \in 1..(p_k - 1) : BeginsWith(Strip(p_lines[m]), <<"zhai", "yao", "colon_fw">>)

\* C27 as stated, over every sequence of lines: a line starting with the
\* summary marker sets the summary to the rest of that line; if that rest is
\* empty, the next non-empty line that starts with neither marker becomes the
\* summary; once the summary is non-empty, later lines that start with
\* neither marker never change it; a non-marker line seen before any marker
\* line is never taken as summary by the scan.
C27_Original_ScanTakesNextPlainLine ==
    LineScanned =>
        /\ BeginsWith(LastLine, <<"zhai", "yao", "colon_fw">>) =>
              p_scan.summary = RestOfLine(LastLine)
        /\ (PlainLine(LastLine) /\ SummaryMarkerSeenBefore /\ p_prev.summary = <<>>) =>
              p_scan.summary = LastLine
        /\ (PlainLine(LastLine) /\ p_prev.summary # <<>>) => p_scan.summary = p_prev.summary
        /\ (PlainLine(LastLine) /\ p_prev.current_section = "none") => p_scan.summary = <<>>

\* C27 as the code has it: a line starting with the summary marker sets the
\* summary to that line without the marker, wherever and however often the
\* marker occurs in it, stripped, and puts the scan in summary mode; a line
\* starting with the tags marker puts it in tags mode and leaves the summary;
\* a non-empty line that starts with neither marker becomes the summary
\* exactly when the scan is in summary mode and the summary is empty, so not
\* when a tags line came in between; in every other case such a line leaves
\* the summary as it is, and so does an empty line.
C27_Amended_ScanTakesPlainLineInSummaryMode ==
    LineScanned =>
        /\ BeginsWith(LastLine, <<"zhai", "yao", "colon_fw">>) =>
              /\ p_scan.current_section = "summary"
              /\ LastLine # <<"zhai", "yao", "colon_fw", "a", "zhai", "yao", "colon_fw", "b">> =>
                    p_scan.summary = RestOfLine(LastLine)
              /\ LastLine = <<"zhai", "yao", "colon_fw", "a", "zhai", "yao", "colon_fw", "b">> =>
                    p_scan.summary = <<"a", "b">>
        /\ BeginsWith(LastLine, <<"biao", "qian", "colon_fw">>) =>
              /\ p_scan.current_section = "bullets"
              /\ p_scan.summary = p_prev.summary
        /\ PlainLine(LastLine) =>
              /\ p_scan.current_section = p_prev.current_section
              /\ (p_prev.current_section = "summary" /\ p_prev.summary = <<>>) =>
                    p_scan.summary = LastLine
              /\ ~(p_prev.current_section = "summary" /\ p_prev.summary = <<>>) =>
                    p_scan.summary = p_prev.summary
        /\ LastLine = <<>> => p_scan = p_prev

\* the summary marker alone, a tags line, then a plain line: the scan is in
\* tags mode when it reads the plain line and leaves the summary empty
C27_Witness ==
    /\ LineScanned
    /\ p_k = 3
    /\ p_lines[1] = <<"zhai", "yao", "colon_fw">>
    /\ BeginsWith(p_lines[2], <<"biao", "qian", "colon_fw", "x">>)
    /\ p_lines[3] = <<"c", "d">>
    /\ p_prev.current_section = "bullets"
    /\ p_scan.summary = <<>>


\* ---------------------------------------------------------------------------
\* C29: every high-priority keyword can lead to acceptance.  A text that holds
\* a keyword is accepted only if no exclusion keyword occurs in it, and the
\* exclusion keywords hold no space, so some text with the keyword k is
\* accepted exactly when the article whose title is k alone, with no
\* description, is accepted.  The statement: the filter accepts every article
\* whose title is one scoring keyword and whose description is empty.
C29_Original_EveryKeywordCanBeAccepted ==
    (rf_pc = "done" /\ rf_description = <<>> /\ rf_title \in KeywordTitles)
        => rf_result


(***************************************************************************)
(* Properties of the Publisher (checked under SpecPublish).                *)
(***************************************************************************)
\* a command of the workflow succeeded: it exited with 0, or git commit found
\* nothing to commit, which commit_changes counts as success
Succeeded(operation) == operation.outcome \in {"ok", "nothing_to_commit"}

\* ---------------------------------------------------------------------------
\* C24: publish returns True if all operations of the workflow succeeded and
\* False otherwise: when publish has returned a value, the value is True
\* exactly if every command that ran (status, stage, commit, deploy)
\* succeeded, so a failed command gives False; and no command ran after a
\* failed one.
C24_Original_PublishTrueIffAllSucceeded ==
    pub_result \in {"True", "False"} =>
        /\ (pub_result = "True") <=> (\A k \in DOMAIN pub_ops : Succeeded(pub_ops[k]))
        /\ \A k \in 1..(Len(pub_ops) - 1) : Succeeded(pub_ops[k])

\* the part of C24 that the code keeps: a failed command is the last one run
C24_NothingRunsAfterAFailure ==
    \A k \in 1..(Len(pub_ops) - 1) : Succeeded(pub_ops[k])


(***************************************************************************)
(* Properties of the scheduler commands (checked under SpecSched).         *)
(***************************************************************************)
\* the processes that are scheduler daemons: the PID file written, the
\* scheduler started, not yet exited
Daemons == {p \in Procs : sc_pc[p] \in {"daemon", "leaving"}}

\* ---------------------------------------------------------------------------
\* C30: under any interleaving of start, run-now and restart issued from
\* separate processes, at most one run_pipeline is executing for today's date
\* at any time, and at most one scheduler daemon is alive at any time.
C30_Original_OnePipelineOneDaemon ==
    /\ Cardinality(sc_pipeline) <= 1
    /\ Cardinality(Daemons) <= 1

\* the two halves of C30, each on its own
C30_AtMostOnePipeline == Cardinality(sc_pipeline) <= 1

C30_AtMostOneDaemon == Cardinality(Daemons) <= 1

====
